---- MODULE Spec2Model ----
(***************************************************************************)
(* Model of playwright-nextjs-auth: the configuration loader               *)
(* (src/utils/config-loader.ts), the provider dispatch and the session     *)
(* driver authSetup (src/index.ts), and the two provider strategies        *)
(* (providers/firebase.ts, providers/supabase.ts).                         *)
(*                                                                         *)
(* One behaviour is one call from a library consumer: either a full        *)
(* authSetup(options) run, or the advanced path createAuthProvider(config) *)
(* followed by provider.signIn(page) on a page the caller owns.  Every     *)
(* awaited call of the code is one step; the outcome of each external call *)
(* (file system, browser, identity backend, page script) is chosen by the  *)
(* environment.  That is the specification Spec.                           *)
(*                                                                         *)
(* The specification SpecRuns has several authSetup calls in flight in one *)
(* process, each with its own locals, their awaited steps interleaved.     *)
(***************************************************************************)
EXTENDS Naturals, Sequences, FiniteSets

VARIABLES
  mode,          \* the entry point in use: "authSetup" | "advanced" | "interleaved" (several authSetup calls)
  fileKind,      \* what configPath resolves to on disk
  input,         \* the object the file's JSON denotes / the object passed to createAuthProvider
  options,       \* the outputDir and storageStateFile of authSetup's options argument
  pc,            \* position of the call in the code
  config,        \* authSetup's local `config` (index.ts:83) once loadConfig returned
  parsed,        \* TRUE once JSON.parse has been called (config-loader.ts:27)
  validated,     \* TRUE once validateConfig has been called (config-loader.ts:36)
  examined,      \* top-level fields of the configuration read by validateConfig
  outputDirExists, \* whether outputDir exists on disk
  mkdirCalls,    \* number of fs.mkdirSync calls
  filesWritten,  \* the paths of the files written during the call
  browser,       \* "none" | "open" | "closed": the chromium child process
  launchCalls,   \* number of chromium.launch calls
  hasContext,    \* browser.newContext returned
  hasPage,       \* context.newPage returned (or the caller's page in advanced mode)
  provider,      \* the Strategy instance createProvider returned, or NoProvider
  createCalls,   \* number of createProvider calls
  createResult,  \* outcome of the last createProvider call
  signInCalls,   \* number of provider.signIn calls
  steps,         \* the external calls signIn has made on backend and page, in order
  failedStep,    \* the step of signIn that failed, or "none"
  signInResult,  \* FirebaseSignInResult of executeSignIn
  nextAuthResult,\* NextAuthSignInResult of executeNextAuthSignIn
  customToken,   \* signIn's local customToken: the token createCustomToken returned
  exchangeArgs,  \* the argument object of executeSignIn's page.evaluate
  csrfObtained,  \* csrfData.csrfToken as read from the CSRF endpoint's answer
  callbackPost,  \* the form posted to the credentials callback and the status the server answered
  warned,        \* console.warn("[Firebase] NextAuth sign in may have failed") was called
  adminApps,     \* admin.apps.length of the process-wide firebase-admin module
  pageApps,      \* window.firebase.apps.length in the page
  pageInitCalls, \* window.firebase.initializeApp calls made by the Strategy
  pageInitArgs,  \* the arguments of those initializeApp calls, in order
  idbState,      \* the origin's firebaseLocalStorageDb: "absent" | "empty" (no object store) | "store"
  idbKeys,       \* number of keys in its firebaseLocalStorage object store
  idbWriters,    \* who created or wrote that database during signIn: "sdk", "probe"
  backendCalls,  \* network calls to the identity backend (token mint, password grant)
  lsWritten,     \* localStorage.setItem was called under the derived key
  lsPresent,     \* the derived key is present in the page's localStorage
  lsWrites,      \* the keys localStorage.setItem has written, in order
  lsReads,       \* the keys localStorage.getItem has been called with, in order
  grantResponse, \* the answer of the password-grant endpoint, or NoResponse
  grantData,     \* the JSON object of an ok answer: await response.json()
  lsValues,      \* the values localStorage.setItem has written, in order
  grantError,    \* status and body carried by the error authenticateViaAPI threw
  snapshotCalls, \* number of context.storageState calls
  snapshotOpts,  \* options of the last context.storageState call
  snapshotIdbKeys, \* number of keys of the structured store the last snapshot captured
  pendingError,  \* error caught by authSetup's catch block, rethrown after finally
  outcome,       \* "running" | "resolved" | "rejected": the promise the caller holds
  error,         \* the error the call rejected with, or NoError
  runs,          \* interleaved authSetup calls: each call's position and locals
  allocated,     \* how many browsers, contexts, pages and Strategies exist so far
  pageOps,       \* the signIn calls made so far: which Strategy on which page
  adminCredentials \* the credentials admin.initializeApp was called with, in order

callVarsAll == <<mode, fileKind, input, options, pc, config, parsed, validated, examined,
                 outputDirExists, mkdirCalls, filesWritten, browser, launchCalls, hasContext, hasPage,
                 provider, createCalls, createResult, signInCalls, steps, failedStep,
                 signInResult, nextAuthResult, customToken, exchangeArgs, csrfObtained,
                 callbackPost, warned, adminApps, pageApps, pageInitCalls,
                 pageInitArgs, idbState, idbKeys, idbWriters,
                 backendCalls, lsWritten, lsPresent, lsWrites, lsReads, grantResponse,
                 grantData, lsValues,
                 grantError, snapshotCalls, snapshotOpts,
                 snapshotIdbKeys, pendingError, outcome, error>>

runsVars == <<runs, allocated, pageOps, adminCredentials>>

vars == <<callVarsAll, runsVars>>

----------------------------------------------------------------------------
(* Configuration values.  A JSON scalar is undefined (key absent), the     *)
(* empty string, or a non-empty string; `!x` in the code is true of the    *)
(* first two.                                                              *)

Absent == "<undefined>"

Scalars == {Absent, "", "v"}

Truthy(x) == x # Absent /\ x # ""

\* the elements of a sequence
Range(seq) == {seq[i] : i \in 1..Len(seq)}

\* interface TestUser { email?, password?, uid? }
NoTestUser == [defined |-> FALSE, uid |-> Absent, email |-> Absent, password |-> Absent]

TestUsers == {NoTestUser} \cup
             [defined : {TRUE}, uid : Scalars, email : Scalars, password : Scalars]

\* the three members validateFirebaseConfig requires of clientConfig
requiredClientFields == {"apiKey", "authDomain", "projectId"}

\* interface FirebaseClientConfig: an object with some of the required keys,
\* undefined, or (the file is untyped JSON) a non-empty string
NoClientConfig == [kind |-> "undefined", keys |-> {}]

ClientConfigs == {NoClientConfig, [kind |-> "string", keys |-> {}]} \cup
                 [kind : {"object"}, keys : SUBSET requiredClientFields]

\* interface FirebaseConfig { serviceAccount, clientConfig }
NoFirebase == [defined |-> FALSE, serviceAccount |-> Absent, clientConfig |-> NoClientConfig]

FirebaseConfigs == {NoFirebase} \cup
                   [defined : {TRUE}, serviceAccount : {Absent, "sa"}, clientConfig : ClientConfigs]

\* interface SupabaseConfig { url, anonKey }
NoSupabase == [defined |-> FALSE, url |-> Absent, anonKey |-> Absent]

\* the values of supabase.url: a hosted project, a custom domain, and a
\* host in which ".supabase.co" occurs before its hosted suffix
Urls == {"https://abcd1234.supabase.co", "https://auth.mycompany.io",
         "https://x.supabase.com.supabase.co"}

SupabaseConfigs == {NoSupabase} \cup
                   [defined : {TRUE}, url : {Absent, ""} \cup Urls, anonKey : Scalars]

\* interface NextAuthConfig { enabled, callbackUrl? }
NoNextAuth == [defined |-> FALSE, enabled |-> FALSE]

NextAuthConfigs == {NoNextAuth} \cup [defined : {TRUE}, enabled : BOOLEAN]

\* type ProviderType, plus what untyped JSON may carry instead
ProviderType == {"firebase", "supabase"}

ProviderValues == ProviderType \cup {Absent, "auth0"}

\* a complete sub-config of each kind
SomeFirebase == [defined |-> TRUE, serviceAccount |-> "sa",
                 clientConfig |-> [kind |-> "object", keys |-> requiredClientFields]]
SomeSupabase == [defined |-> TRUE, url |-> "https://abcd1234.supabase.co", anonKey |-> "v"]

\* interface PlaywrightAuthConfig.  The sub-config of a provider other than
\* config.provider is read nowhere (config-loader.ts:62-66, index.ts:28-47),
\* so it ranges over absent and one complete value only.
PlaywrightAuthConfig ==
  UNION {[provider : {p}, testUser : TestUsers,
          firebase : IF p = "firebase" THEN FirebaseConfigs ELSE {NoFirebase, SomeFirebase},
          supabase : IF p = "supabase" THEN SupabaseConfigs ELSE {NoSupabase, SomeSupabase},
          nextAuth : NextAuthConfigs] : p \in ProviderValues}

NoConfig == [provider |-> Absent, testUser |-> NoTestUser, firebase |-> NoFirebase,
             supabase |-> NoSupabase, nextAuth |-> NoNextAuth]

\* what configPath resolves to: nothing, a directory, a file the process may
\* not read, a file that is not JSON, the JSON text `null`, a JSON object
FileKinds == {"absent", "directory", "unreadable", "badjson", "null", "object"}

NoError == "none"

\* authSetup's local `config` before loadConfig has returned
NotLoaded == [loaded |-> FALSE, value |-> NoConfig]

----------------------------------------------------------------------------
(* config-loader.ts                                                        *)

\* validateFirebaseConfig without its last check (config-loader.ts:95-97)
validateFirebaseConfig_NoUid(c) ==
  IF ~c.firebase.defined THEN "Config:firebase"
  ELSE IF ~Truthy(c.firebase.serviceAccount) THEN "Config:serviceAccount"
  ELSE IF c.firebase.clientConfig.kind = "undefined" THEN "Config:clientConfig"
  ELSE IF c.firebase.clientConfig.kind = "string" THEN "TypeError"
  ELSE IF "apiKey" \notin c.firebase.clientConfig.keys THEN "Config:clientConfig.apiKey"
  ELSE IF "authDomain" \notin c.firebase.clientConfig.keys THEN "Config:clientConfig.authDomain"
  ELSE IF "projectId" \notin c.firebase.clientConfig.keys THEN "Config:clientConfig.projectId"
  ELSE NoError

\* validateFirebaseConfig: the error it throws, or NoError
validateFirebaseConfig(c) ==
  IF ~c.firebase.defined THEN "Config:firebase"
  ELSE IF ~Truthy(c.firebase.serviceAccount) THEN "Config:serviceAccount"
  ELSE IF c.firebase.clientConfig.kind = "undefined" THEN "Config:clientConfig"
  ELSE IF c.firebase.clientConfig.kind = "string" THEN "TypeError"
  ELSE IF "apiKey" \notin c.firebase.clientConfig.keys THEN "Config:clientConfig.apiKey"
  ELSE IF "authDomain" \notin c.firebase.clientConfig.keys THEN "Config:clientConfig.authDomain"
  ELSE IF "projectId" \notin c.firebase.clientConfig.keys THEN "Config:clientConfig.projectId"
  ELSE IF ~Truthy(c.testUser.uid) THEN "Config:testUser.uid"
  ELSE NoError

\* validateSupabaseConfig with `&&` for `||` in its last check (config-loader.ts:117)
validateSupabaseConfig_EitherCredential(c) ==
  IF ~c.supabase.defined THEN "Config:supabase"
  ELSE IF ~Truthy(c.supabase.url) THEN "Config:url"
  ELSE IF ~Truthy(c.supabase.anonKey) THEN "Config:anonKey"
  ELSE IF ~Truthy(c.testUser.email) /\ ~Truthy(c.testUser.password)
       THEN "Config:testUser.email+password"
  ELSE NoError

\* validateSupabaseConfig: the error it throws, or NoError
validateSupabaseConfig(c) ==
  IF ~c.supabase.defined THEN "Config:supabase"
  ELSE IF ~Truthy(c.supabase.url) THEN "Config:url"
  ELSE IF ~Truthy(c.supabase.anonKey) THEN "Config:anonKey"
  ELSE IF ~Truthy(c.testUser.email) \/ ~Truthy(c.testUser.password)
       THEN "Config:testUser.email+password"
  ELSE NoError

\* validateConfig: the error it throws, or NoError
validateConfig(c) ==
  IF ~Truthy(c.provider) THEN "Config:provider"
  ELSE IF c.provider \notin {"firebase", "supabase"} THEN "UnknownProvider"
  ELSE IF ~c.testUser.defined THEN "Config:testUser"
  ELSE IF c.provider = "firebase" THEN validateFirebaseConfig(c)
  ELSE validateSupabaseConfig(c)

\* the top-level fields of the configuration validateConfig reads
validateReads(c) ==
  {"provider"} \cup
  (IF Truthy(c.provider) /\ c.provider \in {"firebase", "supabase"}
   THEN {"testUser"} \cup (IF c.testUser.defined THEN {c.provider} ELSE {})
   ELSE {})

\* loadConfig without the validateConfig call (config-loader.ts:36)
loadConfig_NoValidate(kind, obj) ==
  IF kind = "absent" THEN "ConfigNotFound"
  ELSE IF kind \in {"directory", "unreadable"} THEN "ReadError"
  ELSE IF kind = "badjson" THEN "ParseError"
  ELSE NoError

\* loadConfig: the error it throws for a path resolving to `kind` whose JSON
\* denotes `obj`, or NoError when it returns obj
loadConfig(kind, obj) ==
  IF kind = "absent" THEN "ConfigNotFound"
  ELSE IF kind \in {"directory", "unreadable"} THEN "ReadError"
  ELSE IF kind = "badjson" THEN "ParseError"
  ELSE IF kind = "null" THEN "TypeError"
  ELSE validateConfig(obj)

----------------------------------------------------------------------------
(* index.ts: provider dispatch                                             *)

\* no Strategy instance
NoProvider == [kind |-> "none", fbConfig |-> NoFirebase, sbConfig |-> NoSupabase,
               testUser |-> NoTestUser, nextAuth |-> NoNextAuth]

\* new FirebaseProvider(config, testUser, nextAuth): the constructor stores its arguments
FirebaseProvider(fb, tu, na) ==
  [kind |-> "firebase", fbConfig |-> fb, sbConfig |-> NoSupabase,
   testUser |-> tu, nextAuth |-> na]

\* new SupabaseProvider(config, testUser): the constructor stores its arguments
SupabaseProvider(sb, tu) ==
  [kind |-> "supabase", fbConfig |-> NoFirebase, sbConfig |-> sb,
   testUser |-> tu, nextAuth |-> NoNextAuth]

\* createProvider without the sub-config guards (index.ts:30-32, 40-42)
createProvider_NoGuard(c) ==
  IF c.provider = "firebase"
  THEN [err |-> NoError, strategy |-> FirebaseProvider(c.firebase, c.testUser, c.nextAuth)]
  ELSE IF c.provider = "supabase"
  THEN [err |-> NoError, strategy |-> SupabaseProvider(c.supabase, c.testUser)]
  ELSE [err |-> "UnknownProvider", strategy |-> NoProvider]

\* createProvider whose default case falls through to the last constructor
createProvider_DefaultFallsThrough(c) ==
  IF c.provider = "firebase"
  THEN IF ~c.firebase.defined
       THEN [err |-> "FirebaseConfigRequired", strategy |-> NoProvider]
       ELSE [err |-> NoError, strategy |-> FirebaseProvider(c.firebase, c.testUser, c.nextAuth)]
  ELSE IF ~c.supabase.defined
       THEN [err |-> "SupabaseConfigRequired", strategy |-> NoProvider]
       ELSE [err |-> NoError, strategy |-> SupabaseProvider(c.supabase, c.testUser)]

\* createProvider handing config.nextAuth to the password Strategy as well
createProvider_NextAuthForBoth(c) ==
  IF c.provider = "firebase"
  THEN IF ~c.firebase.defined
       THEN [err |-> "FirebaseConfigRequired", strategy |-> NoProvider]
       ELSE [err |-> NoError, strategy |-> FirebaseProvider(c.firebase, c.testUser, c.nextAuth)]
  ELSE IF c.provider = "supabase"
  THEN IF ~c.supabase.defined
       THEN [err |-> "SupabaseConfigRequired", strategy |-> NoProvider]
       ELSE [err |-> NoError,
             strategy |-> [SupabaseProvider(c.supabase, c.testUser)
                             EXCEPT !.nextAuth = c.nextAuth]]
  ELSE [err |-> "UnknownProvider", strategy |-> NoProvider]

\* createProvider: the switch over config.provider; err is the error thrown
createProvider(c) ==
  IF c.provider = "firebase"
  THEN IF ~c.firebase.defined
       THEN [err |-> "FirebaseConfigRequired", strategy |-> NoProvider]
       ELSE [err |-> NoError, strategy |-> FirebaseProvider(c.firebase, c.testUser, c.nextAuth)]
  ELSE IF c.provider = "supabase"
  THEN IF ~c.supabase.defined
       THEN [err |-> "SupabaseConfigRequired", strategy |-> NoProvider]
       ELSE [err |-> NoError, strategy |-> SupabaseProvider(c.supabase, c.testUser)]
  ELSE [err |-> "UnknownProvider", strategy |-> NoProvider]

\* createAuthProvider delegates to createProvider
createAuthProvider(c) == createProvider(c)

----------------------------------------------------------------------------
(* Results of in-page evaluations                                          *)

\* interface FirebaseSignInResult
NoSignInResult == [done |-> FALSE, success |-> FALSE, idToken |-> Absent, refreshToken |-> Absent]

\* interface NextAuthSignInResult { success, status?, error? }; status 0
\* where the result carries none
NoNextAuthResult == [done |-> FALSE, success |-> FALSE, status |-> 0, error |-> FALSE]

\* the HTTP statuses the credentials callback answers with
CallbackStatuses == {200, 302, 401, 500}

\* the HTTP statuses that are redirects
RedirectStatuses == {301, 302, 303, 307, 308}

\* response.status of a fetch made with redirect: "manual"
\* (firebase.ts:159): the page's fetch does not follow a redirect and hands
\* it back as an opaque-redirect response, whose status reads 0
ManualRedirectStatus(st) == IF st \in RedirectStatuses THEN 0 ELSE st

\* the token createCustomToken(uid) returns, as far as signIn uses it: an
\* opaque value minted for uid; NoToken before the mint
NoToken == [uid |-> Absent]
CustomTokenFor(uid) == [uid |-> uid]

\* the argument object of executeSignIn's page.evaluate; NoExchangeArgs
\* before the call
NoExchangeArgs == [token |-> NoToken, config |-> NoClientConfig]

\* csrfData.csrfToken: a token, or undefined when the JSON the CSRF
\* endpoint answered has no such field
CsrfTokens == {"csrf-1"}
CsrfData == {Absent} \cup CsrfTokens

\* new URLSearchParams({...}) turns every value into a string
FormValue(x) == IF x = Absent THEN "undefined" ELSE x

\* the form of the callback POST and the status the server answered with
\* (0 when the POST got no answer); NoCallbackPost before the POST
NoCallbackPost == [sent |-> FALSE, csrfToken |-> Absent, idToken |-> Absent,
                   refreshToken |-> Absent, status |-> 0]

\* an HTTP response as authenticateViaAPI reads it: response.status and
\* await response.text(); NoResponse before any answer
NoResponse == [status |-> 0, body |-> "none"]

\* the answers of the password-grant endpoint
GrantStatuses == {200, 400, 401, 500}
GrantBodies == {"invalid_grant", "server_error"}
GrantResponses == {[status |-> 200, body |-> "session"]} \cup
                  [status : GrantStatuses \ {200}, body : GrantBodies]

\* the JSON object of an ok answer of the password-grant endpoint, as
\* authenticateViaAPI reads it; numbers are written as their digits;
\* expires_at is a field not every version of the endpoint sends
NoGrantData == [access_token |-> Absent, refresh_token |-> Absent, expires_in |-> Absent,
                expires_at |-> Absent, user |-> Absent]
GrantData == [access_token : {"access-1"}, refresh_token : {"refresh-1"},
              expires_in : {"3600"}, expires_at : {Absent, "1700003600"},
              user : {"user-1"}]

\* response.ok: the status is in the range 200-299
ResponseOk(resp) == resp.status >= 200 /\ resp.status <= 299

\* options of context.storageState; NoSnapshot before any call
NoSnapshot == [path |-> <<>>, indexedDB |-> FALSE]

\* interface AuthSetupOptions: outputDir and storageStateFile are optional
OutputDirs == {Absent, "playwright/.auth"}
StorageStateFiles == {Absent, "admin.json"}
AuthSetupOptions == [outputDir : OutputDirs, storageStateFile : StorageStateFiles]

\* no options: the advanced path does not take any
NoOptions == [outputDir |-> Absent, storageStateFile |-> Absent]

----------------------------------------------------------------------------
(* Variable groups                                                         *)

callVars    == <<mode, fileKind, input, options>>
loaderVars  == <<config, parsed, validated, examined>>
fsVars      == <<outputDirExists, mkdirCalls, filesWritten>>
browserVars == <<browser, launchCalls, hasContext, hasPage>>
dispatchVars == <<provider, createCalls, createResult>>
idbVars     == <<idbState, idbKeys, idbWriters>>
flowVars    == <<customToken, exchangeArgs, csrfObtained, callbackPost, warned>>
firebaseVars == <<signInResult, nextAuthResult, flowVars, adminApps, pageApps,
                  pageInitCalls, pageInitArgs, idbVars>>
supabaseVars == <<lsWritten, lsPresent, lsWrites, lsReads, grantResponse, grantError,
                  grantData, lsValues>>
snapshotVars == <<snapshotCalls, snapshotOpts, snapshotIdbKeys>>
settleVars  == <<pendingError, outcome, error>>

\* the bound on the number of authSetup calls in flight together
MaxRuns == 2

Runs == 1..MaxRuns

\* the locals of one authSetup call (index.ts:92-100): browser, context,
\* page and provider name the objects the call holds, 0 for none yet; the
\* counters count its chromium.launch, newContext, newPage, createProvider
\* and signIn calls
\* the parts of a loaded configuration the token mint reads: the provider
\* name, firebase.serviceAccount and testUser.uid
NoRunConfig == [provider |-> "none", serviceAccount |-> Absent, uid |-> Absent]
RunConfigs ==
  {[provider |-> "firebase", serviceAccount |-> "service-account-a", uid |-> "uid-1"],
   [provider |-> "firebase", serviceAccount |-> "service-account-b", uid |-> "uid-2"],
   [provider |-> "supabase", serviceAccount |-> Absent, uid |-> Absent]}

\* a createCustomToken call: the credential of the admin app that signs the
\* token and the uid passed; NoMint before the call
NoMint == [credential |-> Absent, uid |-> Absent]

IdleRun == [pc |-> "start", browser |-> 0, context |-> 0, page |-> 0, provider |-> 0,
            launches |-> 0, contexts |-> 0, pages |-> 0, creates |-> 0, signIns |-> 0,
            browserOpen |-> FALSE, pendingError |-> FALSE, outcome |-> "running",
            config |-> NoRunConfig, mint |-> NoMint]

NoneAllocated == [browsers |-> 0, contexts |-> 0, pages |-> 0, providers |-> 0]

\* no interleaved call has started
RunsIdle ==
  /\ runs = [r \in Runs |-> IdleRun]
  /\ allocated = NoneAllocated
  /\ pageOps = {}
  /\ adminCredentials = <<>>

\* the state of a single call before its first step
CallIdle ==
  /\ pc = "start"
  /\ config = NotLoaded
  /\ parsed = FALSE
  /\ validated = FALSE
  /\ examined = {}
  /\ outputDirExists \in BOOLEAN
  /\ mkdirCalls = 0
  /\ filesWritten = {}
  /\ browser = "none"
  /\ launchCalls = 0
  /\ hasContext = FALSE
  /\ hasPage = FALSE
  /\ provider = NoProvider
  /\ createCalls = 0
  /\ createResult = NoError
  /\ signInCalls = 0
  /\ steps = <<>>
  /\ failedStep = "none"
  /\ signInResult = NoSignInResult
  /\ nextAuthResult = NoNextAuthResult
  /\ customToken = NoToken
  /\ exchangeArgs = NoExchangeArgs
  /\ csrfObtained = Absent
  /\ callbackPost = NoCallbackPost
  /\ warned = FALSE
  /\ adminApps \in {0, 1}
  /\ pageApps = 0
  /\ pageInitCalls = 0
  /\ pageInitArgs = <<>>
  /\ idbState = "absent"
  /\ idbKeys = 0
  /\ idbWriters = {}
  /\ backendCalls = 0
  /\ lsWritten = FALSE
  /\ lsPresent = FALSE
  /\ lsWrites = <<>>
  /\ lsReads = <<>>
  /\ grantResponse = NoResponse
  /\ grantData = NoGrantData
  /\ lsValues = <<>>
  /\ grantError = NoResponse
  /\ snapshotCalls = 0
  /\ snapshotOpts = NoSnapshot
  /\ snapshotIdbKeys = 0
  /\ pendingError = NoError
  /\ outcome = "running"
  /\ error = NoError

Init ==
  /\ mode \in {"authSetup", "advanced"}
  /\ fileKind \in (IF mode = "authSetup" THEN FileKinds ELSE {"object"})
  /\ input \in (IF fileKind = "object" THEN PlaywrightAuthConfig ELSE {NoConfig})
  /\ options \in (IF mode = "authSetup" THEN AuthSetupOptions ELSE {NoOptions})
  /\ CallIdle
  /\ RunsIdle

----------------------------------------------------------------------------
(* index.ts: authSetup, up to the try block                                *)

\* the call rejects with err without entering the try block
Reject(err) ==
  /\ pc' = "done"
  /\ outcome' = "rejected"
  /\ error' = err
  /\ UNCHANGED pendingError

\* index.ts:75: options.configPath, the file loadConfig reads, under the name
\* the not-found message suggests (config-loader.ts:18)
configPath == <<".", "playwright.env.json">>

\* loadConfig handing back the document without its nextAuth member
AuthSetupLoadConfig_DropsNextAuth ==
  /\ mode = "authSetup" /\ pc = "start"
  /\ parsed' = (fileKind \in {"badjson", "null", "object"})
  /\ validated' = (fileKind \in {"null", "object"})
  /\ examined' = (IF fileKind = "object" THEN validateReads(input) ELSE {})
  /\ IF loadConfig(fileKind, input) = NoError
     THEN /\ config' = [loaded |-> TRUE, value |-> [input EXCEPT !.nextAuth = NoNextAuth]]
          /\ pc' = "ensureOutputDir"
          /\ UNCHANGED settleVars
     ELSE /\ config' = config
          /\ Reject(loadConfig(fileKind, input))
  /\ UNCHANGED <<runsVars, callVars, fsVars, browserVars, dispatchVars, signInCalls, steps,
                 failedStep, firebaseVars, supabaseVars, backendCalls, snapshotVars>>

\* index.ts:83 with config-loader.ts:8-39: loadConfig(configPath)
AuthSetupLoadConfig ==
  /\ mode = "authSetup" /\ pc = "start"
  /\ parsed' = (fileKind \in {"badjson", "null", "object"})
  /\ validated' = (fileKind \in {"null", "object"})
  /\ examined' = (IF fileKind = "object" THEN validateReads(input) ELSE {})
  /\ IF loadConfig(fileKind, input) = NoError
     THEN /\ config' = [loaded |-> TRUE, value |-> input]
          /\ pc' = "ensureOutputDir"
          /\ UNCHANGED settleVars
     ELSE /\ config' = config
          /\ Reject(loadConfig(fileKind, input))
  /\ UNCHANGED <<runsVars, callVars, fsVars, browserVars, dispatchVars, signInCalls, steps,
                 failedStep, firebaseVars, supabaseVars, backendCalls, snapshotVars>>

\* ensureOutputDir returning without having created anything
ensureOutputDir_ChecksOnly(exists, mkdirOk) ==
  [exists |-> exists, mkdirs |-> 0, threw |-> FALSE]

\* config-loader.ts:127-131 ensureOutputDir: mkdirSync runs only when
\* existsSync is false; it creates the directory (mkdirOk) or throws
ensureOutputDir(exists, mkdirOk) ==
  IF exists THEN [exists |-> TRUE, mkdirs |-> 0, threw |-> FALSE]
  ELSE IF mkdirOk THEN [exists |-> TRUE, mkdirs |-> 1, threw |-> FALSE]
  ELSE [exists |-> FALSE, mkdirs |-> 1, threw |-> TRUE]

\* index.ts:87: ensureOutputDir(outputDir)
AuthSetupEnsureOutputDir ==
  /\ pc = "ensureOutputDir"
  /\ \E mkdirOk \in BOOLEAN :
       LET r == ensureOutputDir(outputDirExists, mkdirOk) IN
         /\ outputDirExists' = r.exists
         /\ mkdirCalls' = mkdirCalls + r.mkdirs
         /\ UNCHANGED filesWritten
         /\ IF r.threw
            THEN Reject("MkdirError")
            ELSE /\ pc' = "launch"
                 /\ UNCHANGED settleVars
  /\ UNCHANGED <<runsVars, callVars, loaderVars, browserVars, dispatchVars, signInCalls, steps,
                 failedStep, firebaseVars, supabaseVars, backendCalls, snapshotVars>>

\* index.ts:92: await chromium.launch(); the launch may fail
AuthSetupLaunch ==
  /\ pc = "launch"
  /\ launchCalls' = launchCalls + 1
  /\ \/ /\ browser' = "open"
        /\ pc' = "newContext"
        /\ UNCHANGED settleVars
     \/ /\ browser' = browser
        /\ Reject("LaunchError")
  /\ UNCHANGED <<runsVars, callVars, loaderVars, fsVars, hasContext, hasPage, dispatchVars,
                 signInCalls, steps, failedStep, firebaseVars, supabaseVars,
                 backendCalls, snapshotVars>>

\* index.ts:93-96: await browser.newContext(...); it may fail
AuthSetupNewContext ==
  /\ pc = "newContext"
  /\ \/ /\ hasContext' = TRUE
        /\ pc' = "newPage"
        /\ UNCHANGED settleVars
     \/ /\ hasContext' = hasContext
        /\ Reject("NewContextError")
  /\ UNCHANGED <<runsVars, callVars, loaderVars, fsVars, browser, launchCalls, hasPage,
                 dispatchVars, signInCalls, steps, failedStep, firebaseVars,
                 supabaseVars, backendCalls, snapshotVars>>

\* index.ts:97: await context.newPage(); it may fail
AuthSetupNewPage ==
  /\ pc = "newPage"
  /\ \/ /\ hasPage' = TRUE
        /\ pc' = "createProvider"
        /\ UNCHANGED settleVars
     \/ /\ hasPage' = hasPage
        /\ Reject("NewPageError")
  /\ UNCHANGED <<runsVars, callVars, loaderVars, fsVars, browser, launchCalls, hasContext,
                 dispatchVars, signInCalls, steps, failedStep, firebaseVars,
                 supabaseVars, backendCalls, snapshotVars>>

\* index.ts:100: const provider = createProvider(config), outside the try block
AuthSetupCreateProvider ==
  /\ pc = "createProvider"
  /\ createCalls' = createCalls + 1
  /\ createResult' = createProvider(config.value).err
  /\ provider' = createProvider(config.value).strategy
  /\ IF createProvider(config.value).err = NoError
     THEN pc' = "signIn" /\ UNCHANGED settleVars
     ELSE Reject(createProvider(config.value).err)
  /\ UNCHANGED <<runsVars, callVars, loaderVars, fsVars, browserVars, signInCalls, steps,
                 failedStep, firebaseVars, supabaseVars, backendCalls, snapshotVars>>

\* createAuthProvider launching a browser of its own
CreateAuthProvider_LaunchesBrowser ==
  /\ mode = "advanced" /\ pc = "start"
  /\ createCalls' = createCalls + 1
  /\ createResult' = createAuthProvider(input).err
  /\ provider' = createAuthProvider(input).strategy
  /\ launchCalls' = launchCalls + 1
  /\ browser' = "open"
  /\ IF createAuthProvider(input).err = NoError
     THEN pc' = "created" /\ UNCHANGED settleVars
     ELSE Reject(createAuthProvider(input).err)
  /\ UNCHANGED <<runsVars, callVars, loaderVars, fsVars, hasContext, hasPage, signInCalls,
                 steps, failedStep, firebaseVars, supabaseVars, backendCalls, snapshotVars>>

\* index.ts:139-141: createAuthProvider(config), called by the consumer with
\* its own config object; the consumer then owns a page to sign in on
CreateAuthProvider ==
  /\ mode = "advanced" /\ pc = "start"
  /\ createCalls' = createCalls + 1
  /\ createResult' = createAuthProvider(input).err
  /\ provider' = createAuthProvider(input).strategy
  /\ IF createAuthProvider(input).err = NoError
     THEN pc' = "created" /\ UNCHANGED settleVars
     ELSE Reject(createAuthProvider(input).err)
  /\ UNCHANGED <<runsVars, callVars, loaderVars, fsVars, browserVars, signInCalls, steps,
                 failedStep, firebaseVars, supabaseVars, backendCalls, snapshotVars>>

\* the consumer calls provider.signIn(myPage) on the Strategy it was given
AdvancedSignIn ==
  /\ mode = "advanced" /\ pc = "created"
  /\ hasPage' = TRUE
  /\ pc' = "signIn"
  /\ UNCHANGED <<runsVars, callVars, loaderVars, fsVars, browser, launchCalls, hasContext,
                 dispatchVars, signInCalls, steps, failedStep, firebaseVars,
                 supabaseVars, backendCalls, snapshotVars, settleVars>>

----------------------------------------------------------------------------
(* How signIn hands control back to its caller                             *)

\* signIn throws err at `step`: authSetup's catch block (index.ts:114-116)
\* rethrows it after the finally block; the advanced caller sees it at once
SignInThrows(err, step) ==
  /\ failedStep' = step
  /\ IF mode = "authSetup"
     THEN pc' = "finally" /\ pendingError' = err /\ UNCHANGED <<outcome, error>>
     ELSE pc' = "done" /\ outcome' = "rejected" /\ error' = err /\ UNCHANGED pendingError

\* signIn returns: authSetup goes on to the snapshot (index.ts:108)
SignInReturns ==
  /\ failedStep' = failedStep
  /\ IF mode = "authSetup"
     THEN pc' = "storageState" /\ UNCHANGED settleVars
     ELSE pc' = "done" /\ outcome' = "resolved" /\ UNCHANGED <<pendingError, error>>

\* signIn goes on to its next step
SignInGoes(next) ==
  /\ pc' = next
  /\ UNCHANGED <<failedStep, settleVars>>

\* everything signIn never touches
driverVars == <<runsVars, callVars, loaderVars, fsVars, browserVars, dispatchVars, snapshotVars>>

----------------------------------------------------------------------------
(* providers/firebase.ts: FirebaseProvider.signIn                          *)

\* signIn without the uid check
UidMissing_NotChecked(tu) == FALSE

\* firebase.ts:184-185: const uid = this.testUser.uid; if (!uid)
UidMissing(tu) == ~Truthy(tu.uid)

\* firebase.ts:184-193: the uid check, then initializeAdmin (47-57), which
\* calls admin.initializeApp only when no admin app exists; cert() may throw
FirebaseSignInStart ==
  /\ pc = "signIn" /\ provider.kind = "firebase"
  /\ signInCalls' = signInCalls + 1
  /\ IF UidMissing(provider.testUser)
     THEN /\ SignInThrows("MissingUid", "uid")
          /\ UNCHANGED adminApps
     ELSE IF adminApps > 0
     THEN /\ SignInGoes("fb_mint")
          /\ UNCHANGED adminApps
     ELSE \/ /\ adminApps' = adminApps + 1
             /\ SignInGoes("fb_mint")
          \/ /\ SignInThrows("AdminInitError", "mint")
             /\ UNCHANGED adminApps
  /\ UNCHANGED <<driverVars, steps, signInResult, nextAuthResult, flowVars, pageApps,
                 pageInitCalls, pageInitArgs, idbVars, supabaseVars, backendCalls>>

\* FirebaseMint with the mint failure caught and logged instead of thrown
FirebaseMint_Continue ==
  /\ pc = "fb_mint"
  /\ steps' = Append(steps, "mint")
  /\ backendCalls' = backendCalls + 1
  /\ \/ /\ customToken' = CustomTokenFor(provider.testUser.uid)
        /\ SignInGoes("fb_goto")
     \/ /\ UNCHANGED customToken
        /\ failedStep' = "mint"
        /\ pc' = "fb_goto"
        /\ UNCHANGED settleVars
  /\ UNCHANGED <<driverVars, signInCalls, signInResult, nextAuthResult, exchangeArgs,
                 csrfObtained, callbackPost, warned, adminApps, pageApps, pageInitCalls,
                 pageInitArgs, idbVars, supabaseVars>>

\* firebase.ts:193-199: await admin.auth().createCustomToken(uid), then
\* page.on("console", ...)
FirebaseMint ==
  /\ pc = "fb_mint"
  /\ steps' = Append(steps, "mint")
  /\ backendCalls' = backendCalls + 1
  /\ \/ /\ customToken' = CustomTokenFor(provider.testUser.uid)
        /\ SignInGoes("fb_goto")
     \/ /\ UNCHANGED customToken
        /\ SignInThrows("MintError", "mint")
  /\ UNCHANGED <<driverVars, signInCalls, signInResult, nextAuthResult, exchangeArgs,
                 csrfObtained, callbackPost, warned, adminApps, pageApps, pageInitCalls,
                 pageInitArgs, idbVars, supabaseVars>>

\* firebase.ts:202: await page.goto("/"); the application's own bundle may
\* or may not have initialised an SDK app that the page global exposes, and
\* may or may not have created the SDK's database for the origin
FirebaseGoto ==
  /\ pc = "fb_goto"
  /\ steps' = Append(steps, "goto")
  /\ \/ /\ \E n \in {0, 1} : pageApps' = n
        /\ \E db \in {"absent", "store"} : idbState' = db
        /\ SignInGoes("fb_injectApp")
     \/ /\ SignInThrows("NavigationError", "goto")
        /\ UNCHANGED <<pageApps, idbState>>
  /\ UNCHANGED <<driverVars, signInCalls, signInResult, nextAuthResult, flowVars,
                 adminApps, pageInitCalls, pageInitArgs, idbKeys, idbWriters,
                 supabaseVars, backendCalls>>

\* firebase.ts:65: await page.addScriptTag({ url: FIREBASE_APP_COMPAT })
FirebaseInjectApp ==
  /\ pc = "fb_injectApp"
  /\ steps' = Append(steps, "injectApp")
  /\ \/ SignInGoes("fb_injectAuth")
     \/ SignInThrows("InjectionError", "inject")
  /\ UNCHANGED <<driverVars, signInCalls, firebaseVars, supabaseVars, backendCalls>>

\* firebase.ts:66: await page.addScriptTag({ url: FIREBASE_AUTH_COMPAT })
FirebaseInjectAuth ==
  /\ pc = "fb_injectAuth"
  /\ steps' = Append(steps, "injectAuth")
  /\ \/ SignInGoes("fb_exchange")
     \/ SignInThrows("InjectionError", "inject")
  /\ UNCHANGED <<driverVars, signInCalls, firebaseVars, supabaseVars, backendCalls>>

\* the tokens the SDK hands out for a signed-in user
SdkIdTokens == {"id-1"}
SdkRefreshTokens == {"rt-1"}

\* signIn without the success check of firebase.ts:211-213
AfterExchange_Ignored(res) ==
  SignInGoes("fb_nextAuth")

\* firebase.ts:211-214: signIn throws when the exchange reported success: false
AfterExchange(res) ==
  IF ~res.success
  THEN SignInThrows("SignInFailed", "exchange")
  ELSE SignInGoes("fb_nextAuth")

\* the exchange handed a token that is not the one this call minted
ExchangeArgs_StaleToken ==
  [token |-> NoToken, config |-> provider.fbConfig.clientConfig]

\* firebase.ts:78 and 124: { token: customToken, config: clientConfig },
\* where clientConfig is this.config.clientConfig
ExchangeArgs ==
  [token |-> customToken, config |-> provider.fbConfig.clientConfig]

\* the app lookup with the reuse branch removed: initializeApp on every exchange
UseOrInitApp_AlwaysInit ==
  /\ pageApps' = pageApps + 1
  /\ pageInitCalls' = pageInitCalls + 1
  /\ pageInitArgs' = Append(pageInitArgs, ExchangeArgs.config)

\* firebase.ts:85-96: inside the page function, window.firebase.apps[0] is
\* reused when the page has an app, else window.firebase.initializeApp(config)
\* is called with the clientConfig passed as the evaluate argument (line 124)
UseOrInitApp ==
  IF pageApps > 0
  THEN UNCHANGED <<pageApps, pageInitCalls, pageInitArgs>>
  ELSE /\ pageApps' = pageApps + 1
       /\ pageInitCalls' = pageInitCalls + 1
       /\ pageInitArgs' = Append(pageInitArgs, ExchangeArgs.config)

\* firebase.ts:209-214 with executeSignIn (74-126): one page.evaluate that
\* reuses or initialises the app, signs in and reads the tokens; any
\* exception inside the page function becomes success: false, and signIn
\* throws on success: false.  The evaluate call itself may also reject.
FirebaseExchange ==
  /\ pc = "fb_exchange"
  /\ steps' = Append(steps, "exchange")
  /\ exchangeArgs' = ExchangeArgs
  /\ \/ \* the page function completes the sign-in
        /\ UseOrInitApp
        /\ \E id \in SdkIdTokens, rt \in SdkRefreshTokens :
             signInResult' = [done |-> TRUE, success |-> TRUE,
                              idToken |-> id, refreshToken |-> rt]
        /\ AfterExchange(signInResult')
     \/ \* initializeApp throws inside the page function
        /\ pageApps = 0
        /\ pageInitCalls' = pageInitCalls + 1
        /\ pageInitArgs' = Append(pageInitArgs, ExchangeArgs.config)
        /\ UNCHANGED pageApps
        /\ signInResult' = [NoSignInResult EXCEPT !.done = TRUE]
        /\ AfterExchange(signInResult')
     \/ \* signInWithCustomToken or getIdToken throws inside the page function
        /\ UseOrInitApp
        /\ signInResult' = [NoSignInResult EXCEPT !.done = TRUE]
        /\ AfterExchange(signInResult')
     \/ \* page.evaluate rejects
        /\ UNCHANGED <<pageApps, pageInitCalls, pageInitArgs, signInResult>>
        /\ SignInThrows("EvaluateError", "exchange")
  /\ UNCHANGED <<driverVars, signInCalls, nextAuthResult, customToken, csrfObtained,
                 callbackPost, warned, adminApps, idbVars, supabaseVars, backendCalls>>

\* firebase.ts:102: the injected SDK's signInWithCustomToken persists the
\* signed-in user into the firebaseLocalStorage store on its own schedule,
\* creating database and store when needed; once the reload has replaced
\* the document the injected SDK is gone
SdkPersist ==
  /\ signInResult.success /\ idbKeys = 0
  /\ pc \in {"fb_nextAuth", "fb_settle", "fb_probe", "fb_probeHung", "fb_reload"}
  /\ idbState' = "store"
  /\ idbKeys' = 1
  /\ idbWriters' = idbWriters \cup {"sdk"}
  /\ UNCHANGED <<driverVars, pc, signInCalls, steps, failedStep, signInResult,
                 nextAuthResult, flowVars, adminApps, pageApps, pageInitCalls,
                 pageInitArgs, supabaseVars, backendCalls, settleVars>>

\* signIn throwing when the secondary session reported success: false
AfterNextAuth_Throws(res) ==
  /\ warned' = ~res.success
  /\ IF ~res.success
     THEN SignInThrows("NextAuthFailed", "nextAuth")
     ELSE SignInGoes("fb_settle")

\* firebase.ts:225-232: a failed secondary session is logged with
\* console.warn, a successful one with console.log; signIn goes on either way
AfterNextAuth(res) ==
  /\ warned' = ~res.success
  /\ SignInGoes("fb_settle")

\* firebase.ts:151-157: new URLSearchParams({ csrfToken, idToken,
\* refreshToken, callbackUrl, json: "true" }), not yet answered
CallbackForm(csrfToken, idToken, refreshToken) ==
  [sent |-> TRUE, csrfToken |-> FormValue(csrfToken), idToken |-> FormValue(idToken),
   refreshToken |-> FormValue(refreshToken), status |-> 0]

\* firebase.ts:164-167: { success: response.status === 200 ||
\* response.status === 302, status: response.status }
CallbackResult(status) ==
  [done |-> TRUE, success |-> (status = 200 \/ status = 302), status |-> status,
   error |-> FALSE]

\* firebase.ts:168-174: the catch block of the page function
CaughtResult == [done |-> TRUE, success |-> FALSE, status |-> 0, error |-> TRUE]

\* signIn without the secondary-session block of firebase.ts:216-233
FirebaseNextAuth_Skipped ==
  /\ pc = "fb_nextAuth"
  /\ SignInGoes("fb_settle")
  /\ UNCHANGED <<driverVars, signInCalls, steps, firebaseVars, supabaseVars, backendCalls>>

\* the secondary-session block entered whatever nextAuth.enabled says
NextAuthGuard_Always == TRUE

\* firebase.ts:217: this.nextAuth?.enabled && signInResult.idToken &&
\* signInResult.refreshToken
NextAuthGuard ==
  /\ provider.nextAuth.enabled
  /\ Truthy(signInResult.idToken)
  /\ Truthy(signInResult.refreshToken)

\* firebase.ts:216-233 with executeNextAuthSignIn (131-178), one
\* page.evaluate: skipped unless the guard holds.  The page function fetches
\* /api/auth/csrf and reads csrfData.csrfToken from its JSON, then POSTs the
\* form to /api/auth/callback/credentials with redirect: "manual" and
\* reports the status it reads.  A fetch that rejects or a CSRF body that
\* is not JSON lands in the catch block; a JSON body without a csrfToken
\* field does not.  signIn warns on success: false and goes on.
FirebaseNextAuth ==
  /\ pc = "fb_nextAuth"
  /\ IF NextAuthGuard
     THEN /\ \/ \* the CSRF fetch rejects or its body is not JSON
                /\ steps' = Append(steps, "csrf")
                /\ UNCHANGED <<csrfObtained, callbackPost>>
                /\ nextAuthResult' = CaughtResult
             \/ \* the CSRF endpoint answers JSON and the form is posted
                \E data \in CsrfData :
                  /\ steps' = steps \o <<"csrf", "callback">>
                  /\ csrfObtained' = data
                  /\ \/ \E st \in CallbackStatuses :
                          /\ callbackPost' =
                               [CallbackForm(data, signInResult.idToken,
                                             signInResult.refreshToken)
                                  EXCEPT !.status = st]
                          /\ nextAuthResult' = CallbackResult(ManualRedirectStatus(st))
                     \/ \* the POST gets no answer
                        /\ callbackPost' = CallbackForm(data, signInResult.idToken,
                                                        signInResult.refreshToken)
                        /\ nextAuthResult' = CaughtResult
          /\ AfterNextAuth(nextAuthResult')
     ELSE /\ UNCHANGED <<steps, nextAuthResult, csrfObtained, callbackPost, warned>>
          /\ SignInGoes("fb_settle")
  /\ UNCHANGED <<driverVars, signInCalls, signInResult, customToken, exchangeArgs,
                 adminApps, pageApps, pageInitCalls, pageInitArgs, idbVars,
                 supabaseVars, backendCalls>>

\* signIn without the settle wait of firebase.ts:236
FirebaseSettle_Omitted ==
  /\ pc = "fb_settle"
  /\ SignInGoes("fb_probe")
  /\ UNCHANGED <<driverVars, signInCalls, steps, firebaseVars, supabaseVars, backendCalls>>

\* firebase.ts:236: await page.waitForTimeout(2000)
FirebaseSettle ==
  /\ pc = "fb_settle"
  /\ steps' = Append(steps, "settle")
  /\ SignInGoes("fb_probe")
  /\ UNCHANGED <<driverVars, signInCalls, firebaseVars, supabaseVars, backendCalls>>

\* firebase.ts:239-260: the IndexedDB probe.  indexedDB.open without a
\* version creates the database, with no object store, when the origin has
\* none.  The probe's promise resolves when the open fails, when the
\* database has no store, or when the key listing succeeds; it never
\* resolves when the key listing fails, as getAllKeysRequest has no onerror
\* handler.
FirebaseProbe ==
  /\ pc = "fb_probe"
  /\ steps' = Append(steps, "probe")
  /\ \/ \* the open succeeds on a database that did not exist
        /\ idbState = "absent"
        /\ idbState' = "empty"
        /\ idbWriters' = idbWriters \cup {"probe"}
        /\ UNCHANGED idbKeys
        /\ SignInGoes("fb_reload")
     \/ \* the open succeeds on a database without the store
        /\ idbState = "empty"
        /\ UNCHANGED idbVars
        /\ SignInGoes("fb_reload")
     \/ \* the open succeeds and the keys are listed, or the listing fails
        /\ idbState = "store"
        /\ UNCHANGED idbVars
        /\ \/ SignInGoes("fb_reload")
           \/ SignInGoes("fb_probeHung")
     \/ \* the open fails
        /\ UNCHANGED idbVars
        /\ SignInGoes("fb_reload")
  /\ UNCHANGED <<driverVars, signInCalls, signInResult, nextAuthResult, flowVars,
                 adminApps, pageApps, pageInitCalls, pageInitArgs, supabaseVars,
                 backendCalls>>

\* firebase.ts:263: await page.reload({ waitUntil: "networkidle" })
FirebaseReload ==
  /\ pc = "fb_reload"
  /\ steps' = Append(steps, "reload")
  /\ \/ SignInReturns
     \/ SignInThrows("NavigationError", "reload")
  /\ UNCHANGED <<driverVars, signInCalls, firebaseVars, supabaseVars, backendCalls>>

----------------------------------------------------------------------------
(* providers/supabase.ts: SupabaseProvider.signIn                          *)

\* Strings the key derivation works on are sequences of characters.
HostedSuffix == <<".", "s", "u", "p", "a", "b", "a", "s", "e", ".", "c", "o">>
KeyPrefix == <<"s", "b", "-">>
KeySuffix == <<"-", "a", "u", "t", "h", "-", "t", "o", "k", "e", "n">>

\* new URL(url).hostname (supabase.ts getProjectRef, first two lines)
hostname(url) ==
  CASE url = "https://abcd1234.supabase.co" ->
         <<"a", "b", "c", "d", "1", "2", "3", "4">> \o HostedSuffix
    [] url = "https://auth.mycompany.io" ->
         <<"a", "u", "t", "h", ".", "m", "y", "c", "o", "m", "p", "a", "n", "y",
           ".", "i", "o">>
    [] url = "https://x.supabase.com.supabase.co" ->
         <<"x">> \o HostedSuffix \o <<"m">> \o HostedSuffix

\* String.prototype.endsWith
EndsWith(str, suffix) ==
  /\ Len(str) >= Len(suffix)
  /\ SubSeq(str, Len(str) - Len(suffix) + 1, Len(str)) = suffix

\* the positions at which pattern occurs in str
Occurrences(str, pattern) ==
  {i \in 1..Len(str) : /\ i + Len(pattern) - 1 <= Len(str)
                        /\ SubSeq(str, i, i + Len(pattern) - 1) = pattern}

\* String.prototype.replace with a string pattern: only the first
\* occurrence is replaced
ReplaceFirst(str, pattern, replacement) ==
  IF Occurrences(str, pattern) = {}
  THEN str
  ELSE LET i == CHOOSE j \in Occurrences(str, pattern) :
                  \A k \in Occurrences(str, pattern) : j <= k
       IN  SubSeq(str, 1, i - 1) \o replacement \o
           SubSeq(str, i + Len(pattern), Len(str))

\* String.prototype.replace with a global one-character pattern
ReplaceAll(str, char, replacement) ==
  [i \in 1..Len(str) |-> IF str[i] = char THEN replacement ELSE str[i]]

\* supabase.ts getProjectRef
getProjectRef(url) ==
  IF EndsWith(hostname(url), HostedSuffix)
  THEN ReplaceFirst(hostname(url), HostedSuffix, <<>>)
  ELSE ReplaceAll(hostname(url), ".", "-")

\* supabase.ts injectSession and signIn step 6: `sb-${projectRef}-auth-token`
storageKey(url) == KeyPrefix \o getProjectRef(url) \o KeySuffix

\* supabase.ts authenticateViaAPI, its return statement: the session
\* object made of the fields of the answer
Session(data) ==
  [accessToken |-> data.access_token, refreshToken |-> data.refresh_token,
   expiresIn |-> data.expires_in, expiresAt |-> data.expires_at, user |-> data.user]

\* the keys of injectSession's sessionData literal, in the order written
SessionDataKeys ==
  <<"access_token", "refresh_token", "expires_in", "expires_at", "token_type", "user">>

\* sessionData with the two expiry fields taking each other's value
sessionData_SwapsExpiry(session) ==
  [access_token |-> session.accessToken, refresh_token |-> session.refreshToken,
   expires_in |-> session.expiresAt, expires_at |-> session.expiresIn,
   token_type |-> "bearer", user |-> session.user]

\* supabase.ts injectSession: const sessionData = { ... }
sessionData(session) ==
  [access_token |-> session.accessToken, refresh_token |-> session.refreshToken,
   expires_in |-> session.expiresIn, expires_at |-> session.expiresAt,
   token_type |-> "bearer", user |-> session.user]

\* JSON.stringify of an object with the given keys: its members in order,
\* each a key and a value; a member whose value is undefined is left out
JSONStringify(obj, keys) ==
  SelectSeq([i \in 1..Len(keys) |-> <<keys[i], obj[keys[i]]>>],
            LAMBDA member : member[2] # Absent)

\* JSON.parse of such a text, read at the given keys: a key the text does
\* not have reads undefined
JSONParse(text, keys) ==
  [k \in Range(keys) |->
     IF \E i \in 1..Len(text) : text[i][1] = k
     THEN text[CHOOSE i \in 1..Len(text) : text[i][1] = k][2]
     ELSE Absent]

\* the credentials check looking at the email only
CredentialsMissing_EmailOnly(tu) == ~Truthy(tu.email)

\* supabase.ts authenticateViaAPI: if (!email || !password)
CredentialsMissing(tu) == ~Truthy(tu.email) \/ ~Truthy(tu.password)

\* authenticateViaAPI going on after a response that is not ok
AfterGrant_IgnoresStatus(resp) ==
  /\ UNCHANGED grantError
  /\ SignInGoes("sb_goto")

\* supabase.ts authenticateViaAPI: if (!response.ok) throw new Error(
\* `Supabase authentication failed: ${response.status} - ${error}`), where
\* error is await response.text()
AfterGrant(resp) ==
  IF ~ResponseOk(resp)
  THEN /\ grantError' = [status |-> resp.status, body |-> resp.body]
       /\ SignInThrows("AuthenticationError", "grant")
  ELSE /\ UNCHANGED grantError
       /\ SignInGoes("sb_goto")

\* supabase.ts signIn step 1 with authenticateViaAPI: the email/password
\* check, then the password-grant POST to `${url}/auth/v1/token`; a
\* non-2xx answer throws, and so does a fetch that gets no answer, which
\* is the only outcome when url is not a URL.  On success
\* page.on("console", ...) follows.
SupabaseGrant ==
  /\ pc = "signIn" /\ provider.kind = "supabase"
  /\ signInCalls' = signInCalls + 1
  /\ IF CredentialsMissing(provider.testUser)
     THEN /\ SignInThrows("MissingCredentials", "credentials")
          /\ UNCHANGED <<steps, backendCalls, grantResponse, grantError, grantData>>
     ELSE /\ steps' = Append(steps, "grant")
          /\ backendCalls' = backendCalls + 1
          /\ \/ \E resp \in GrantResponses :
                  /\ provider.sbConfig.url \in Urls
                  /\ grantResponse' = resp
                  /\ \E data \in (IF ResponseOk(resp) THEN GrantData ELSE {NoGrantData}) :
                       grantData' = data
                  /\ AfterGrant(resp)
             \/ /\ UNCHANGED <<grantResponse, grantError, grantData>>
                /\ SignInThrows("FetchError", "grant")
  /\ UNCHANGED <<driverVars, firebaseVars, lsWritten, lsPresent, lsWrites, lsReads,
                 lsValues>>

\* supabase.ts signIn step 3: await page.goto("/")
SupabaseGoto ==
  /\ pc = "sb_goto"
  /\ steps' = Append(steps, "goto")
  /\ \/ SignInGoes("sb_inject")
     \/ SignInThrows("NavigationError", "goto")
  /\ UNCHANGED <<driverVars, signInCalls, firebaseVars, supabaseVars, backendCalls>>

\* supabase.ts signIn step 4 with injectSession: localStorage.setItem(key,
\* JSON.stringify(data)) under the derived key, data being the sessionData
\* made of the session authenticateViaAPI returned; setItem throws when the
\* page's storage is disabled
SupabaseInject ==
  /\ pc = "sb_inject"
  /\ steps' = Append(steps, "setItem")
  /\ \/ /\ lsWritten' = TRUE
        /\ lsPresent' = TRUE
        /\ lsWrites' = Append(lsWrites, storageKey(provider.sbConfig.url))
        /\ lsValues' = Append(lsValues, JSONStringify(sessionData(Session(grantData)),
                                                      SessionDataKeys))
        /\ UNCHANGED <<lsReads, grantResponse, grantError, grantData>>
        /\ SignInGoes("sb_reload")
     \/ /\ UNCHANGED supabaseVars
        /\ SignInThrows("EvaluateError", "setItem")
  /\ UNCHANGED <<driverVars, signInCalls, firebaseVars, backendCalls>>

\* signIn without the reload of step 5
SupabaseReload_Omitted ==
  /\ pc = "sb_reload"
  /\ SignInGoes("sb_verify")
  /\ UNCHANGED <<driverVars, signInCalls, steps, firebaseVars, supabaseVars, backendCalls>>

\* supabase.ts signIn step 5: await page.reload(); the freshly loaded
\* application may keep the entry or sign out and remove it
SupabaseReload ==
  /\ pc = "sb_reload"
  /\ steps' = Append(steps, "reload")
  /\ \/ /\ \E kept \in BOOLEAN : lsPresent' = (lsPresent /\ kept)
        /\ UNCHANGED <<lsWritten, lsWrites, lsReads, grantResponse, grantError,
                       grantData, lsValues>>
        /\ SignInGoes("sb_verify")
     \/ /\ UNCHANGED supabaseVars
        /\ SignInThrows("NavigationError", "reload")
  /\ UNCHANGED <<driverVars, signInCalls, firebaseVars, backendCalls>>

\* signIn without the check of the value read back
AfterVerify_NoCheck(storedSession) ==
  SignInReturns

\* supabase.ts signIn step 6: if (!storedSession) throw new Error(
\* "Supabase session was not persisted in localStorage")
AfterVerify(storedSession) ==
  IF ~storedSession
  THEN SignInThrows("InjectionError", "getItem")
  ELSE SignInReturns

\* supabase.ts signIn step 6: the key is derived again and
\* localStorage.getItem(storageKey) is read in the page; the value is
\* there when the entry written under that key is still present
SupabaseVerify ==
  /\ pc = "sb_verify"
  /\ steps' = Append(steps, "getItem")
  /\ lsReads' = Append(lsReads, storageKey(provider.sbConfig.url))
  /\ AfterVerify(lsPresent /\ storageKey(provider.sbConfig.url) \in Range(lsWrites))
  /\ UNCHANGED <<driverVars, signInCalls, firebaseVars, lsWritten, lsPresent, lsWrites,
                 grantResponse, grantError, grantData, lsValues, backendCalls>>

----------------------------------------------------------------------------
(* index.ts: authSetup, the try / catch / finally block                    *)

\* index.ts:76: outputDir = "e2e/.auth"; a destructuring default applies
\* when the property is undefined
outputDir ==
  IF options.outputDir = Absent THEN "e2e/.auth" ELSE options.outputDir

\* index.ts:78: storageStateFile = "user.json"
storageStateFile ==
  IF options.storageStateFile = Absent THEN "user.json" ELSE options.storageStateFile

\* path.join of a directory and a file name: the file of that name in that
\* directory
pathJoin(dir, file) == <<dir, file>>

\* the snapshot path made of the defaults whatever the options say
storageStatePath_DefaultsOnly == pathJoin("e2e/.auth", "user.json")

\* index.ts:88: const storageStatePath = path.join(outputDir, storageStateFile)
storageStatePath == pathJoin(outputDir, storageStateFile)

\* storageState leaving a file behind also when it fails
SnapshotFile_AlsoOnFailure(err) ==
  filesWritten' = filesWritten \cup {storageStatePath}

\* context.storageState({ path }): the snapshot file is written at path
\* when the call succeeds
SnapshotFile(err) ==
  filesWritten' = IF err = NoError
                  THEN filesWritten \cup {storageStatePath}
                  ELSE filesWritten

\* index.ts:108-111: await context.storageState({ path, indexedDB: true });
\* the call may fail, which the catch block rethrows after finally
AuthSetupStorageState ==
  /\ pc = "storageState"
  /\ snapshotCalls' = snapshotCalls + 1
  /\ snapshotOpts' = [path |-> storageStatePath, indexedDB |-> TRUE]
  /\ snapshotIdbKeys' = idbKeys
  /\ pc' = "finally"
  /\ \E err \in {NoError, "SnapshotError"} :
       /\ pendingError' = err
       /\ SnapshotFile(err)
  /\ UNCHANGED <<runsVars, callVars, loaderVars, outputDirExists, mkdirCalls, browserVars,
                 dispatchVars, signInCalls,
                 steps, failedStep, firebaseVars, supabaseVars, backendCalls,
                 outcome, error>>

\* the catch block rejecting with an error of its own instead of rethrowing
AuthSetupFinally_WrapsError ==
  /\ pc = "finally"
  /\ browser' = "closed"
  /\ pc' = "done"
  /\ outcome' = (IF pendingError = NoError THEN "resolved" ELSE "rejected")
  /\ error' = (IF pendingError = NoError THEN NoError ELSE "AuthenticationFailed")
  /\ UNCHANGED <<runsVars, callVars, loaderVars, fsVars, launchCalls, hasContext, hasPage,
                 dispatchVars, signInCalls, steps, failedStep, firebaseVars,
                 supabaseVars, backendCalls, snapshotVars, pendingError>>

\* index.ts:117-119: finally { await browser.close() }, after which the
\* promise settles: rejected with the caught error, else resolved
\* (browser.close itself is taken to succeed)
AuthSetupFinally ==
  /\ pc = "finally"
  /\ browser' = "closed"
  /\ pc' = "done"
  /\ outcome' = (IF pendingError = NoError THEN "resolved" ELSE "rejected")
  /\ error' = pendingError
  /\ UNCHANGED <<runsVars, callVars, loaderVars, fsVars, launchCalls, hasContext, hasPage,
                 dispatchVars, signInCalls, steps, failedStep, firebaseVars,
                 supabaseVars, backendCalls, snapshotVars, pendingError>>

----------------------------------------------------------------------------

Next ==
  \/ AuthSetupLoadConfig
  \/ AuthSetupEnsureOutputDir
  \/ AuthSetupLaunch
  \/ AuthSetupNewContext
  \/ AuthSetupNewPage
  \/ AuthSetupCreateProvider
  \/ CreateAuthProvider
  \/ AdvancedSignIn
  \/ FirebaseSignInStart
  \/ FirebaseMint
  \/ FirebaseGoto
  \/ FirebaseInjectApp
  \/ FirebaseInjectAuth
  \/ FirebaseExchange
  \/ SdkPersist
  \/ FirebaseNextAuth
  \/ FirebaseSettle
  \/ FirebaseProbe
  \/ FirebaseReload
  \/ SupabaseGrant
  \/ SupabaseGoto
  \/ SupabaseInject
  \/ SupabaseReload
  \/ SupabaseVerify
  \/ AuthSetupStorageState
  \/ AuthSetupFinally

Spec == Init /\ [][Next]_vars

----------------------------------------------------------------------------
(* Several authSetup calls in one process.  Each call is an async function *)
(* (index.ts:73-120) that yields at every await, so the calls' steps       *)
(* interleave.  browser, context, page and provider are locals of the      *)
(* call; chromium.launch, browser.newContext, context.newPage and `new`    *)
(* each hand out an object that did not exist before.                      *)

\* call r moves to position next with its locals changed as given
RunGoes(r, next, changes) ==
  runs' = [runs EXCEPT ![r] = [changes EXCEPT !.pc = next]]

\* call r rejects outside the try block (index.ts:83-100)
RunRejects(r, changes) ==
  runs' = [runs EXCEPT ![r] = [changes EXCEPT !.pc = "done", !.outcome = "rejected"]]

\* index.ts:83-92: loadConfig and ensureOutputDir run synchronously; either
\* may throw; otherwise the call awaits chromium.launch()
RunLoadConfig(r) ==
  /\ runs[r].pc = "start"
  /\ \/ RunGoes(r, "launch", runs[r])
     \/ RunRejects(r, runs[r])
  /\ UNCHANGED <<callVarsAll, adminCredentials, allocated, pageOps>>

\* index.ts:92: const browser = await chromium.launch()
RunLaunch(r) ==
  /\ runs[r].pc = "launch"
  /\ \/ /\ allocated' = [allocated EXCEPT !.browsers = @ + 1]
        /\ RunGoes(r, "newContext",
                   [runs[r] EXCEPT !.browser = allocated.browsers + 1,
                                   !.browserOpen = TRUE, !.launches = @ + 1])
     \/ /\ UNCHANGED allocated
        /\ RunRejects(r, [runs[r] EXCEPT !.launches = @ + 1])
  /\ UNCHANGED <<callVarsAll, adminCredentials, pageOps>>

\* index.ts:93-96: const context = await browser.newContext(...)
RunNewContext(r) ==
  /\ runs[r].pc = "newContext"
  /\ \/ /\ allocated' = [allocated EXCEPT !.contexts = @ + 1]
        /\ RunGoes(r, "newPage",
                   [runs[r] EXCEPT !.context = allocated.contexts + 1,
                                   !.contexts = @ + 1])
     \/ /\ UNCHANGED allocated
        /\ RunRejects(r, [runs[r] EXCEPT !.contexts = @ + 1])
  /\ UNCHANGED <<callVarsAll, adminCredentials, pageOps>>

\* newPage handing every call the same page
RunNewPage_SharedPage(r) ==
  /\ runs[r].pc = "newPage"
  /\ \/ /\ allocated' = [allocated EXCEPT !.pages = 1]
        /\ RunGoes(r, "createProvider",
                   [runs[r] EXCEPT !.page = 1, !.pages = @ + 1])
     \/ /\ UNCHANGED allocated
        /\ RunRejects(r, [runs[r] EXCEPT !.pages = @ + 1])
  /\ UNCHANGED <<callVarsAll, adminCredentials, pageOps>>

\* index.ts:97: const page = await context.newPage()
RunNewPage(r) ==
  /\ runs[r].pc = "newPage"
  /\ \/ /\ allocated' = [allocated EXCEPT !.pages = @ + 1]
        /\ RunGoes(r, "createProvider",
                   [runs[r] EXCEPT !.page = allocated.pages + 1, !.pages = @ + 1])
     \/ /\ UNCHANGED allocated
        /\ RunRejects(r, [runs[r] EXCEPT !.pages = @ + 1])
  /\ UNCHANGED <<callVarsAll, adminCredentials, pageOps>>

\* index.ts:100: const provider = createProvider(config); a loaded
\* configuration has its sub-config, so a Strategy is constructed, which
\* keeps the configuration the call loaded
RunCreateProvider(r) ==
  /\ runs[r].pc = "createProvider"
  /\ allocated' = [allocated EXCEPT !.providers = @ + 1]
  /\ \E c \in RunConfigs :
       RunGoes(r, "signIn",
               [runs[r] EXCEPT !.provider = allocated.providers + 1, !.creates = @ + 1,
                               !.config = c])
  /\ UNCHANGED <<callVarsAll, adminCredentials, pageOps>>

\* initializeAdmin without the admin.apps check (firebase.ts:48-50)
initializeAdmin_NoGuard(apps, serviceAccount) == Append(apps, serviceAccount)

\* firebase.ts:47-57 initializeAdmin: admin.initializeApp is called with
\* this provider's serviceAccount only when the process has no admin app
initializeAdmin(apps, serviceAccount) ==
  IF Len(apps) > 0 THEN apps ELSE Append(apps, serviceAccount)

\* firebase.ts:193: admin.auth().createCustomToken(uid); admin.auth() is the
\* Auth service of the default app, the one initialised first
createCustomToken(apps, uid) == [credential |-> Head(apps), uid |-> uid]

\* index.ts:104: provider.signIn(page) is called and is in flight until
\* its promise settles.  The token strategy runs initializeAdmin and makes
\* its createCustomToken call (firebase.ts:184-193) before its first await;
\* the password strategy does not use the admin module.
RunSignInBegin(r) ==
  /\ runs[r].pc = "signIn"
  /\ pageOps' = pageOps \cup {[provider |-> runs[r].provider, page |-> runs[r].page]}
  /\ IF runs[r].config.provider = "firebase"
     THEN /\ adminCredentials' =
               initializeAdmin(adminCredentials, runs[r].config.serviceAccount)
          /\ RunGoes(r, "inSignIn",
                     [runs[r] EXCEPT !.signIns = @ + 1,
                                     !.mint = createCustomToken(adminCredentials',
                                                                runs[r].config.uid)])
     ELSE /\ UNCHANGED adminCredentials
          /\ RunGoes(r, "inSignIn", [runs[r] EXCEPT !.signIns = @ + 1])
  /\ UNCHANGED <<callVarsAll, allocated>>

\* index.ts:104: await provider.signIn(page) settles: it returns, or it
\* throws into the catch block (114-116)
RunSignInEnd(r) ==
  /\ runs[r].pc = "inSignIn"
  /\ \/ RunGoes(r, "storageState", runs[r])
     \/ RunGoes(r, "finally", [runs[r] EXCEPT !.pendingError = TRUE])
  /\ UNCHANGED <<callVarsAll, adminCredentials, allocated, pageOps>>

\* index.ts:108-111: await context.storageState(...)
RunStorageState(r) ==
  /\ runs[r].pc = "storageState"
  /\ \/ RunGoes(r, "finally", runs[r])
     \/ RunGoes(r, "finally", [runs[r] EXCEPT !.pendingError = TRUE])
  /\ UNCHANGED <<callVarsAll, adminCredentials, allocated, pageOps>>

\* index.ts:117-119: finally { await browser.close() }, then the call settles
RunFinally(r) ==
  /\ runs[r].pc = "finally"
  /\ RunGoes(r, "done",
             [runs[r] EXCEPT !.browserOpen = FALSE,
                             !.outcome = IF runs[r].pendingError
                                         THEN "rejected" ELSE "resolved"])
  /\ UNCHANGED <<callVarsAll, adminCredentials, allocated, pageOps>>

\* the calls are all about to start; the single-call variables stay idle
RunsInit ==
  /\ mode = "interleaved"
  /\ fileKind = "object"
  /\ input = NoConfig
  /\ options = NoOptions
  /\ CallIdle
  /\ outputDirExists = FALSE
  /\ adminApps = 0
  /\ RunsIdle

RunsNext ==
  \E r \in Runs :
    \/ RunLoadConfig(r)
    \/ RunLaunch(r)
    \/ RunNewContext(r)
    \/ RunNewPage(r)
    \/ RunCreateProvider(r)
    \/ RunSignInBegin(r)
    \/ RunSignInEnd(r)
    \/ RunStorageState(r)
    \/ RunFinally(r)

SpecRuns == RunsInit /\ [][RunsNext]_vars

----------------------------------------------------------------------------
(* Properties                                                              *)

IsPrefix(s, t) == Len(s) <= Len(t) /\ \A i \in 1..Len(s) : s[i] = t[i]

\* the configuration createProvider was called with
CreateArg == IF mode = "authSetup" THEN config.value ELSE input

\* signIn has returned normally to its caller
SignInReturned ==
  \/ mode = "authSetup" /\ (pc = "storageState" \/ snapshotCalls > 0)
  \/ mode = "advanced" /\ outcome = "resolved"

\* the requirements a configuration has to meet, as the specification lists them
RequirementsMet(c) ==
  /\ c.provider \in {"firebase", "supabase"}
  /\ c.testUser.defined
  /\ c.provider = "firebase" =>
       /\ c.firebase.defined
       /\ Truthy(c.firebase.serviceAccount)
       /\ c.firebase.clientConfig.kind = "object"
       /\ {"apiKey", "authDomain", "projectId"} \subseteq c.firebase.clientConfig.keys
       /\ Truthy(c.testUser.uid)
  /\ c.provider = "supabase" =>
       /\ c.supabase.defined
       /\ Truthy(c.supabase.url)
       /\ Truthy(c.supabase.anonKey)
       /\ Truthy(c.testUser.email)
       /\ Truthy(c.testUser.password)

\* the errors that report a problem of the configuration
ConfigurationErrors ==
  {"ConfigNotFound", "ReadError", "ParseError", "TypeError", "UnknownProvider",
   "Config:provider", "Config:testUser", "Config:firebase", "Config:serviceAccount",
   "Config:clientConfig", "Config:clientConfig.apiKey", "Config:clientConfig.authDomain",
   "Config:clientConfig.projectId", "Config:testUser.uid", "Config:supabase",
   "Config:url", "Config:anonKey", "Config:testUser.email+password",
   "FirebaseConfigRequired", "SupabaseConfigRequired", "MissingUid", "MissingCredentials"}

\* C1: authSetup captures the storage snapshot only after signIn has returned
\* without throwing; whenever the in-page exchange reported success = false,
\* no snapshot call is ever made in the run and authSetup rejects with the
\* sign-in failure.
C1_SnapshotOnlyAfterSignIn ==
  /\ snapshotCalls > 0 =>
       /\ signInCalls = 1
       /\ failedStep = "none"
       /\ steps # <<>>
       /\ steps[Len(steps)] \in {"reload", "getItem"}
  /\ (mode = "authSetup" /\ signInResult.done /\ ~signInResult.success) =>
       /\ snapshotCalls = 0
       /\ pc \in {"finally", "done"}
       /\ outcome # "resolved"
       /\ pc = "done" => outcome = "rejected" /\ error = "SignInFailed"

\* C1 witness: an authSetup run whose exchange reported failure has rejected
C1_Witness ==
  /\ mode = "authSetup"
  /\ signInResult.done /\ ~signInResult.success
  /\ outcome = "rejected"

\* C2: whenever an authSetup run that launched the browser has settled, the
\* browser has been closed.
C2_BrowserClosedWhenSettled ==
  (mode = "authSetup" /\ outcome # "running" /\ launchCalls > 0) => browser # "open"

\* C3: when loading or validating the configuration fails, authSetup rejects
\* without ever launching a browser, calling a backend, or creating or
\* invoking a Strategy.
C3_ConfigFailureBeforeAnyWork ==
  (mode = "authSetup" /\ ~(fileKind = "object" /\ RequirementsMet(input))) =>
    /\ launchCalls = 0 /\ browser = "none" /\ ~hasContext /\ ~hasPage
    /\ backendCalls = 0
    /\ createCalls = 0 /\ provider = NoProvider
    /\ signInCalls = 0 /\ steps = <<>>
    /\ pc \in {"start", "done"}
    /\ pc = "done" => outcome = "rejected" /\ error \in ConfigurationErrors

\* C3 witness: a run on a configuration lacking a required principal field
\* has rejected
C3_Witness ==
  /\ mode = "authSetup" /\ fileKind = "object"
  /\ input.provider = "firebase" /\ input.firebase.defined /\ ~Truthy(input.testUser.uid)
  /\ outcome = "rejected"

\* C4: loadConfig returns the parsed configuration if and only if provider is
\* firebase or supabase, testUser is present and the active provider's
\* requirements are met; otherwise it throws, and validation reads only
\* provider, testUser and the active provider's block.
C4_AcceptsIffRequirementsMet ==
  (mode = "authSetup" /\ validated) =>
    /\ config.loaded <=> (fileKind = "object" /\ RequirementsMet(input))
    /\ config.loaded => config.value = input
    /\ ~config.loaded => pc = "done" /\ outcome = "rejected" /\ error \in ConfigurationErrors
    /\ examined \subseteq {"provider", "testUser", input.provider}

\* C4 witness: a supabase configuration without a firebase block was accepted
C4_Witness ==
  /\ mode = "authSetup" /\ config.loaded
  /\ input.provider = "supabase" /\ ~input.firebase.defined
  /\ examined = {"provider", "testUser", "supabase"}

\* C5: whenever configPath does not resolve to a readable file, loadConfig
\* fails with the configuration-not-found error and neither parses nor
\* validates.
C5_NotFoundWheneverUnreadable ==
  (mode = "authSetup" /\ pc # "start" /\ fileKind \in {"absent", "directory", "unreadable"}) =>
    /\ outcome = "rejected" /\ error = "ConfigNotFound"
    /\ ~parsed /\ ~validated

\* C6: for every configuration loadConfig accepted, createProvider returns
\* the Strategy of the configured provider, the Strategy's own principal
\* checks never fire, and no configuration error surfaces once the browser
\* has been launched.
C6_AcceptedConfigNeverFailsLate ==
  (mode = "authSetup" /\ config.loaded) =>
    /\ createCalls > 0 => createResult = NoError /\ provider.kind = config.value.provider
    /\ failedStep \notin {"uid", "credentials"}
    /\ browser # "none" => error \notin ConfigurationErrors /\ pendingError \notin ConfigurationErrors

\* C6 witness: in an authSetup run the Strategy's principal check has passed
\* and the backend has been called
C6_Witness ==
  /\ mode = "authSetup" /\ config.loaded
  /\ signInCalls = 1 /\ backendCalls = 1 /\ browser = "open"

\* the Strategy p is bound to the sub-config of c's provider and to c's principal
BoundTo(p, c) ==
  /\ p.kind = c.provider
  /\ p.testUser = c.testUser
  /\ c.provider = "firebase" => p.fbConfig = c.firebase /\ c.firebase.defined
  /\ c.provider = "supabase" => p.sbConfig = c.supabase /\ c.supabase.defined

\* C7 as stated: createProvider fails with the unknown-provider error exactly
\* when the provider has no constructor, and for every other configuration
\* returns a Strategy bound to the provider's sub-config and the principal.
C7_StrategyForEveryKnownProvider ==
  createCalls > 0 =>
    /\ createResult = "UnknownProvider" <=> CreateArg.provider \notin {"firebase", "supabase"}
    /\ CreateArg.provider \in {"firebase", "supabase"} =>
         createResult = NoError /\ BoundTo(provider, CreateArg)

\* the sub-config of c's provider is present
SubConfigPresent(c) ==
  \/ c.provider = "firebase" /\ c.firebase.defined
  \/ c.provider = "supabase" /\ c.supabase.defined

\* C7 amended: createProvider fails with the unknown-provider error exactly
\* when the provider is neither firebase nor supabase; for firebase or
\* supabase without that provider's sub-config it fails with the
\* configuration-required error; in every other case it returns a Strategy
\* bound to the sub-config and the principal.
C7_StrategyWhenSubConfigPresent ==
  createCalls > 0 =>
    /\ createResult = "UnknownProvider" <=> CreateArg.provider \notin {"firebase", "supabase"}
    /\ SubConfigPresent(CreateArg) => createResult = NoError /\ BoundTo(provider, CreateArg)
    /\ (CreateArg.provider = "firebase" /\ ~CreateArg.firebase.defined) =>
         createResult = "FirebaseConfigRequired" /\ provider = NoProvider
    /\ (CreateArg.provider = "supabase" /\ ~CreateArg.supabase.defined) =>
         createResult = "SupabaseConfigRequired" /\ provider = NoProvider

\* C7 witness: createAuthProvider was called for firebase without a firebase block
C7_Witness ==
  /\ createCalls = 1
  /\ CreateArg.provider = "firebase" /\ ~CreateArg.firebase.defined
  /\ outcome = "rejected"

FirebaseOrder(secondary) ==
  <<"mint", "goto", "injectApp", "injectAuth", "exchange">> \o secondary \o
  <<"settle", "probe", "reload">>

\* C9: FirebaseProvider.signIn performs its steps in the order mint,
\* navigate, inject app script, inject auth script, exchange, optional
\* secondary session, settle wait, probe, reload; it returns only after the
\* reload, so the driver's snapshot follows the reload.
C9_FirebaseStepOrder ==
  provider.kind = "firebase" =>
    /\ \E secondary \in {<<>>, <<"csrf">>, <<"csrf", "callback">>} :
         IsPrefix(steps, FirebaseOrder(secondary))
    /\ SignInReturned =>
         \E secondary \in {<<>>, <<"csrf">>, <<"csrf", "callback">>} :
           steps = FirebaseOrder(secondary)
    /\ snapshotCalls > 0 => steps # <<>> /\ steps[Len(steps)] = "reload"

\* C9 witness: a snapshot was captured after a firebase sign-in with a
\* secondary session
C9_Witness ==
  /\ provider.kind = "firebase" /\ snapshotCalls = 1
  /\ steps = FirebaseOrder(<<"csrf", "callback">>)

\* C10: when the mint, the navigation, the SDK injection or the in-page
\* exchange fails, FirebaseProvider.signIn throws and performs none of the
\* later steps.
C10_PrimaryFailureAborts ==
  (provider.kind = "firebase" /\
     (failedStep \in {"mint", "goto", "inject", "exchange"} \/
      (signInResult.done /\ ~signInResult.success))) =>
    /\ Range(steps) \cap {"csrf", "callback", "settle", "probe", "reload"} = {}
    /\ pc \in {"finally", "done"}
    /\ IF mode = "authSetup"
       THEN pendingError # NoError /\ outcome # "resolved"
       ELSE outcome = "rejected" /\ error # NoError

\* C10 witness: signIn has thrown after a failed SDK injection
C10_Witness ==
  /\ provider.kind = "firebase" /\ failedStep = "inject"
  /\ steps[Len(steps)] \in {"injectApp", "injectAuth"}
  /\ pc = "done"

\* the secondary-session step ran and reported failure
SecondaryFailed == nextAuthResult.done /\ ~nextAuthResult.success

\* signIn has thrown to its caller
SignInThrew ==
  /\ failedStep # "none"
  /\ IF mode = "authSetup"
     THEN pendingError # NoError /\ outcome # "resolved"
     ELSE outcome = "rejected" /\ error # NoError

SnapshotWithSecondaryLayer ==
  snapshotCalls > 0 /\ provider.kind = "firebase" /\ provider.nextAuth.enabled

\* C12 as stated: when the secondary session layer is enabled, the snapshot
\* is captured only in runs where the secondary-session step succeeded.
C12_SnapshotOnlyAfterSecondarySuccess ==
  SnapshotWithSecondaryLayer => (nextAuthResult.done /\ nextAuthResult.success)

\* C12 amended: when the secondary session layer is enabled, the snapshot is
\* captured only after the primary sign-in succeeded and the
\* secondary-session step has been attempted, whether or not that step
\* succeeded.
C12_SnapshotAfterSecondaryAttempt ==
  SnapshotWithSecondaryLayer =>
    /\ signInResult.done /\ signInResult.success
    /\ nextAuthResult.done
    /\ "csrf" \in Range(steps)

\* C12 witness: a snapshot was captured although the callback answered 401
C12_Witness ==
  /\ SnapshotWithSecondaryLayer /\ snapshotCalls = 1
  /\ SecondaryFailed /\ nextAuthResult.status = 401

C14_OnlySdkWritesStore ==
  provider.kind = "firebase" => idbWriters \subseteq {"sdk"}

\* C15: whenever authSetup resolves for the token backend, the captured
\* snapshot holds at least one key of the SDK's structured store.
C15_SnapshotHoldsPersistedSession ==
  (mode = "authSetup" /\ provider.kind = "firebase" /\ outcome = "resolved") =>
    (snapshotCalls > 0 /\ snapshotIdbKeys >= 1)

\* the order of the password strategy's steps
SupabaseOrder == <<"grant", "goto", "setItem", "reload", "getItem">>

\* the error signIn threw, as its caller's catch block sees it
ThrownError == IF mode = "authSetup" THEN pendingError ELSE error

\* C16: SupabaseProvider.signIn performs its steps in the order password
\* grant, navigation, session write, reload, read-back; when it returns it
\* has written exactly one entry, under the derived storage key, and has
\* read back that same key.
C16_SupabaseStepOrder ==
  provider.kind = "supabase" =>
    /\ IsPrefix(steps, SupabaseOrder)
    /\ Len(lsWrites) <= 1 /\ Len(lsReads) <= 1
    /\ lsWrites # <<>> => lsWrites[1] = storageKey(provider.sbConfig.url)
    /\ lsReads # <<>> => lsReads = lsWrites
    /\ SignInReturned =>
         /\ steps = SupabaseOrder
         /\ Len(lsWrites) = 1
         /\ lsReads = lsWrites

\* C16 witness: authSetup resolved after a complete password sign-in
C16_Witness ==
  /\ provider.kind = "supabase" /\ mode = "authSetup" /\ outcome = "resolved"
  /\ steps = SupabaseOrder /\ Len(lsWrites) = 1

\* C17: when the password-grant endpoint answers with a non-2xx status,
\* SupabaseProvider.signIn throws an authentication error that carries the
\* status and the body of that answer, and the call has made no navigation,
\* no key-value write, no reload and no read.
C17_GrantRejectionLeavesPageUntouched ==
  (provider.kind = "supabase" /\ grantResponse # NoResponse /\ ~ResponseOk(grantResponse)) =>
    /\ SignInThrew /\ failedStep = "grant"
    /\ ThrownError = "AuthenticationError"
    /\ grantError = grantResponse
    /\ steps = <<"grant">>
    /\ lsWrites = <<>> /\ lsReads = <<>> /\ ~lsWritten

\* C17 witness: authSetup rejected after the endpoint answered 401 invalid_grant
C17_Witness ==
  /\ provider.kind = "supabase" /\ mode = "authSetup" /\ outcome = "rejected"
  /\ grantResponse = [status |-> 401, body |-> "invalid_grant"]
  /\ error = "AuthenticationError"

\* the key the derivation is meant to yield: sb-<host without its hosted
\* suffix>-auth-token for a host ending in .supabase.co, else
\* sb-<host with every dot replaced by a hyphen>-auth-token
ExpectedKey(url) ==
  IF EndsWith(hostname(url), HostedSuffix)
  THEN KeyPrefix \o SubSeq(hostname(url), 1, Len(hostname(url)) - Len(HostedSuffix))
                 \o KeySuffix
  ELSE KeyPrefix \o ReplaceAll(hostname(url), ".", "-") \o KeySuffix

\* C18: every key the Strategy writes or reads is the storage key that
\* belongs to the backend base URL: the subdomain part between sb- and
\* -auth-token for a hosted URL, the host with dots replaced by hyphens for
\* every other URL.
C18_KeyDerivedFromHost ==
  provider.kind = "supabase" =>
    \A key \in Range(lsWrites) \cup Range(lsReads) :
      key = ExpectedKey(provider.sbConfig.url)

\* C19: SupabaseProvider.signIn throws an injection error when the derived
\* key is absent after the reload; whenever signIn returns the entry was
\* present under the derived key after the reload; and no snapshot is
\* captured for a run whose verification failed.
C19_VerificationGuardsReturn ==
  provider.kind = "supabase" =>
    /\ ("getItem" \in Range(steps) /\ ~lsPresent) =>
         /\ SignInThrew /\ failedStep = "getItem"
         /\ ThrownError = "InjectionError"
    /\ SignInReturned =>
         /\ lsPresent
         /\ lsReads = <<storageKey(provider.sbConfig.url)>>
         /\ lsReads = lsWrites
    /\ failedStep = "getItem" => snapshotCalls = 0 /\ outcome # "resolved"

\* C19 witness: the application removed the entry on reload, verification
\* failed and authSetup rejected without a snapshot
C19_Witness ==
  /\ provider.kind = "supabase" /\ mode = "authSetup" /\ outcome = "rejected"
  /\ failedStep = "getItem" /\ error = "InjectionError"
  /\ lsWritten /\ ~lsPresent /\ snapshotCalls = 0

C21_CreateAuthProviderRunsNothing ==
  [][(mode = "advanced" /\ pc = "start") =>
       /\ UNCHANGED <<fsVars, browserVars, signInCalls, steps, firebaseVars,
                      supabaseVars, backendCalls, snapshotVars>>
       /\ launchCalls' = 0 /\ browser' = "none" /\ backendCalls' = 0
       /\ mkdirCalls' = 0 /\ snapshotCalls' = 0 /\ steps' = <<>>
       /\ signInCalls' = 0]_vars

\* C21 witness: createAuthProvider has returned a Strategy bound to the
\* caller's configuration and signIn has not been invoked yet
C21_Witness ==
  /\ mode = "advanced" /\ pc = "created"
  /\ createCalls = 1 /\ signInCalls = 0
  /\ provider.kind = "firebase" /\ BoundTo(provider, input)


\* C22: an authSetup call that resolved made exactly one storageState call,
\* with indexedDB: true, at the path made of outputDir, or e2e/.auth when
\* the option is omitted, and storageStateFile, or user.json when omitted;
\* for the token strategy and for the password strategy alike.
C22_OneSnapshotAtConfiguredPath ==
  (mode = "authSetup" /\ outcome = "resolved") =>
    /\ provider.kind \in {"firebase", "supabase"}
    /\ snapshotCalls = 1
    /\ snapshotOpts.indexedDB = TRUE
    /\ snapshotOpts.path =
         << IF options.outputDir = Absent THEN "e2e/.auth" ELSE options.outputDir,
            IF options.storageStateFile = Absent THEN "user.json"
            ELSE options.storageStateFile >>

\* C22 witness: a password-strategy run given an outputDir and no
\* storageStateFile resolved
C22_Witness ==
  /\ mode = "authSetup" /\ outcome = "resolved"
  /\ provider.kind = "supabase"
  /\ options.outputDir = "playwright/.auth" /\ options.storageStateFile = Absent
  /\ snapshotOpts.path = <<"playwright/.auth", "user.json">>


\* C23: after a successful in-page exchange the probe always resolves:
\* once signIn has started the probe it is at the reload or past it, never
\* left waiting on the probe's promise.
C23_ProbeAlwaysResolves ==
  (signInResult.success /\ "probe" \in Range(steps)) =>
    pc \in {"fb_reload", "storageState", "finally", "done"}


\* the call created the output directory: mkdirSync was called and the
\* directory exists
DirCreatedByRun == mkdirCalls > 0 /\ outputDirExists

\* C24 as stated: the snapshot file is the only file-system effect of
\* authSetup: a call that rejected left the file system as it was, and a
\* call that resolved added the snapshot file at the output path and
\* nothing else.
C24_OnlySnapshotFileOnDisk ==
  mode = "authSetup" =>
    /\ outcome = "rejected" => (~DirCreatedByRun /\ filesWritten = {})
    /\ outcome = "resolved" => (~DirCreatedByRun /\ filesWritten = {storageStatePath})

\* C24 amended: the file-system effects of authSetup are the output
\* directory, created if absent once the configuration has loaded, and the
\* snapshot file: a call that rejected at config loading left the file
\* system as it was, a call that rejected later wrote no file (it may have
\* created the directory), and a call that resolved wrote the snapshot file
\* at the output path and no other, in a directory that exists.
C24_OutputDirAndSnapshotFile ==
  mode = "authSetup" =>
    /\ DirCreatedByRun => config.loaded
    /\ mkdirCalls <= 1
    /\ (outcome = "rejected" /\ ~config.loaded) => (mkdirCalls = 0 /\ filesWritten = {})
    /\ outcome = "rejected" => filesWritten = {}
    /\ outcome = "resolved" => (filesWritten = {storageStatePath} /\ outputDirExists)
    /\ outcome = "running" => filesWritten \subseteq {storageStatePath}

\* C24 witness: a call that created the output directory rejected during
\* signIn, leaving the directory and no file
C24_Witness ==
  /\ mode = "authSetup" /\ outcome = "rejected"
  /\ failedStep # "none"
  /\ DirCreatedByRun /\ filesWritten = {}


\* the errors each step of signIn throws
StepErrors(step) ==
  CASE step = "uid" -> {"MissingUid"}
    [] step = "mint" -> {"AdminInitError", "MintError"}
    [] step = "goto" -> {"NavigationError"}
    [] step = "inject" -> {"InjectionError"}
    [] step = "exchange" -> {"SignInFailed", "EvaluateError"}
    [] step = "reload" -> {"NavigationError"}
    [] step = "credentials" -> {"MissingCredentials"}
    [] step = "grant" -> {"AuthenticationError", "FetchError"}
    [] step = "setItem" -> {"EvaluateError"}
    [] step = "getItem" -> {"InjectionError"}
    [] OTHER -> {}

C26_TokenMintedWithOwnCredential ==
  \A r \in Runs :
    runs[r].mint # NoMint =>
      /\ runs[r].mint.credential = runs[r].config.serviceAccount
      /\ runs[r].mint.uid = runs[r].config.uid


\* C27: in the token strategy the token handed to the in-page exchange is
\* the one minted earlier in the same signIn call for the provider's uid,
\* the client parameters handed over, and those initializeApp receives, are
\* the configured clientConfig, and the idToken and refreshToken posted to
\* the callback are the ones the exchange of this call returned; they are
\* passed as the argument object of page.evaluate.
C27_DataFlowsStepToStep ==
  provider.kind = "firebase" =>
    /\ "exchange" \in Range(steps) =>
         /\ "mint" \in Range(steps)
         /\ customToken = CustomTokenFor(provider.testUser.uid)
         /\ exchangeArgs.token = customToken
         /\ exchangeArgs.config = provider.fbConfig.clientConfig
         /\ \A i \in 1..Len(pageInitArgs) :
              pageInitArgs[i] = provider.fbConfig.clientConfig
    /\ "exchange" \notin Range(steps) => exchangeArgs = NoExchangeArgs
    /\ callbackPost.sent =>
         /\ signInResult.success
         /\ callbackPost.idToken = signInResult.idToken
         /\ callbackPost.refreshToken = signInResult.refreshToken

\* C27 witness: the exchange returned its tokens and the callback was
\* posted with them and answered 200
C27_Witness ==
  /\ provider.kind = "firebase"
  /\ exchangeArgs.token = CustomTokenFor("v")
  /\ callbackPost.sent /\ callbackPost.status = 200
  /\ callbackPost.idToken = "id-1" /\ callbackPost.refreshToken = "rt-1"


\* C28: the callback POST is sent only after the CSRF endpoint has been
\* fetched, the csrfToken field it carries is a token obtained from that
\* endpoint's answer, and no callback POST is sent when no CSRF token was
\* obtained.
C28_CallbackCarriesObtainedCsrfToken ==
  provider.kind = "firebase" =>
    /\ \A i \in 1..Len(steps) :
         steps[i] = "callback" => \E j \in 1..(i - 1) : steps[j] = "csrf"
    /\ callbackPost.sent =>
         /\ csrfObtained \in CsrfTokens
         /\ callbackPost.csrfToken = csrfObtained


\* signIn is past the secondary-session block of firebase.ts:216-233
PastSecondaryStep ==
  /\ signInResult.success
  /\ pc \in {"fb_settle", "fb_probe", "fb_probeHung", "fb_reload",
              "storageState", "finally", "done"}

\* every occurrence of step a in steps comes before every occurrence of b
Precedes(a, b) ==
  \A i, j \in 1..Len(steps) : (steps[i] = a /\ steps[j] = b) => i < j

\* no CSRF or callback request has been made
NoSecondaryRequest ==
  /\ Range(steps) \cap {"csrf", "callback"} = {}
  /\ ~nextAuthResult.done /\ ~callbackPost.sent /\ csrfObtained = Absent

\* C29 as stated: with nextAuth enabled and a successful exchange, the CSRF
\* fetch and the callback POST are both performed before the settle wait;
\* with nextAuth absent or not enabled, signIn makes no CSRF or callback
\* request.
C29_SecondaryStepFullyRunWhenEnabled ==
  provider.kind = "firebase" =>
    /\ (provider.nextAuth.enabled /\ PastSecondaryStep) =>
         /\ {"csrf", "callback"} \subseteq Range(steps)
         /\ Precedes("csrf", "settle") /\ Precedes("callback", "settle")
    /\ ~provider.nextAuth.enabled => NoSecondaryRequest

\* C29 amended: with nextAuth enabled and a successful exchange, the CSRF
\* fetch is performed before the settle wait, and the callback POST follows
\* it, also before the settle wait, unless the CSRF fetch failed or its
\* answer was not JSON; with nextAuth absent or not enabled, signIn makes no
\* CSRF or callback request.
C29_SecondaryStepExactlyWhenEnabled ==
  provider.kind = "firebase" =>
    /\ (provider.nextAuth.enabled /\ PastSecondaryStep) =>
         /\ nextAuthResult.done
         /\ "csrf" \in Range(steps)
         /\ "callback" \in Range(steps) <=> callbackPost.sent
         /\ ~callbackPost.sent => (nextAuthResult.error /\ csrfObtained = Absent)
         /\ Precedes("csrf", "callback")
         /\ Precedes("csrf", "settle") /\ Precedes("callback", "settle")
    /\ ~provider.nextAuth.enabled => NoSecondaryRequest

\* C29 witness: with nextAuth enabled the CSRF fetch failed, no callback
\* was posted and signIn went on to the settle wait
C29_Witness ==
  /\ provider.kind = "firebase" /\ provider.nextAuth.enabled
  /\ PastSecondaryStep /\ "settle" \in Range(steps)
  /\ "csrf" \in Range(steps) /\ ~callbackPost.sent


\* C30: the secondary-session step reports success exactly when the
\* callback was answered with status 200 or 302; every other status, and
\* every exception while fetching the CSRF token or posting the callback,
\* gives success = false and a warning.
C30_SuccessIffStatus200Or302 ==
  nextAuthResult.done =>
    /\ nextAuthResult.success <=>
         (callbackPost.sent /\ callbackPost.status \in {200, 302})
    /\ ~nextAuthResult.success => warned
    /\ nextAuthResult.error => ~nextAuthResult.success


\* C31: an exception raised while the SDK scripts are injected or inside
\* the in-page exchange does not propagate as an exception: it ends up in a
\* FirebaseSignInResult with success = false, from which signIn builds the
\* error it throws.
C31_InjectAndExchangeErrorsBecomeResults ==
  (provider.kind = "firebase" /\ failedStep \in {"inject", "exchange"} /\
     ThrownError # "EvaluateError") =>
    /\ signInResult.done /\ ~signInResult.success
    /\ ThrownError = "SignInFailed"


\* C32: the value the password strategy writes under the derived key is
\* the JSON text of a record whose access_token, refresh_token, expires_in,
\* expires_at and user are those of the grant answer and whose token_type
\* is "bearer"; parsing the stored text gives back exactly those fields;
\* and that key is the only one the strategy writes.
C32_StoredSessionRoundTrips ==
  provider.kind = "supabase" =>
    /\ Len(lsValues) = Len(lsWrites)
    /\ \A i \in 1..Len(lsWrites) : lsWrites[i] = storageKey(provider.sbConfig.url)
    /\ \A i \in 1..Len(lsValues) :
         LET stored == JSONParse(lsValues[i], SessionDataKeys)
         IN  /\ grantData # NoGrantData
             /\ stored.access_token = grantData.access_token
             /\ stored.refresh_token = grantData.refresh_token
             /\ stored.expires_in = grantData.expires_in
             /\ stored.expires_at = grantData.expires_at
             /\ stored.user = grantData.user
             /\ stored.token_type = "bearer"
             /\ \A m \in 1..Len(lsValues[i]) :
                  lsValues[i][m][1] \in Range(SessionDataKeys)
             /\ JSONStringify(stored, SessionDataKeys) = lsValues[i]

\* C32 witness: the grant answered without expires_at and the session was
\* written, the stored text having five members
C32_Witness ==
  /\ provider.kind = "supabase" /\ Len(lsValues) = 1
  /\ grantData.expires_at = Absent /\ grantData.access_token = "access-1"
  /\ Len(lsValues[1]) = 5
  /\ outcome = "resolved"


\* C33: when testUser.email or testUser.password is missing or empty,
\* SupabaseProvider.signIn throws without having sent the password-grant
\* request and without having touched the page: no backend call, no
\* navigation, no storage write or read.
C33_MissingCredentialsFailFast ==
  (provider.kind = "supabase" /\ signInCalls > 0 /\
     (~Truthy(provider.testUser.email) \/ ~Truthy(provider.testUser.password))) =>
    /\ failedStep = "credentials" /\ SignInThrew
    /\ ThrownError = "MissingCredentials"
    /\ steps = <<>> /\ backendCalls = 0
    /\ grantResponse = NoResponse /\ grantData = NoGrantData
    /\ lsWrites = <<>> /\ lsReads = <<>> /\ ~lsWritten

\* C33 witness: a password Strategy built from a configuration with an
\* email and no password was asked to sign in and threw
C33_Witness ==
  /\ provider.kind = "supabase" /\ signInCalls = 1
  /\ Truthy(provider.testUser.email) /\ provider.testUser.password = Absent
  /\ outcome = "rejected" /\ error = "MissingCredentials"


\* the fields quoted in the message of an error validateConfig throws itself
\* (config-loader.ts:47-120); a TypeError is raised by the engine, not by one
\* of these throw statements, and quotes no field of the configuration
FieldsNamed(err) ==
  CASE err \in {"Config:provider", "UnknownProvider"} -> {"provider"}
    [] err = "Config:testUser" -> {"testUser"}
    [] err = "Config:firebase" -> {"firebase"}
    [] err = "Config:serviceAccount" -> {"serviceAccount"}
    [] err = "Config:clientConfig" -> {"clientConfig"}
    [] err = "Config:clientConfig.apiKey" -> {"clientConfig.apiKey"}
    [] err = "Config:clientConfig.authDomain" -> {"clientConfig.authDomain"}
    [] err = "Config:clientConfig.projectId" -> {"clientConfig.projectId"}
    [] err = "Config:testUser.uid" -> {"testUser.uid"}
    [] err = "Config:supabase" -> {"supabase"}
    [] err = "Config:url" -> {"url"}
    [] err = "Config:anonKey" -> {"anonKey"}
    [] err = "Config:testUser.email+password" -> {"testUser.email", "testUser.password"}
    [] OTHER -> {}

\* the fields of a parsed document that are missing or invalid for its provider
OffendingFields(kind, c) ==
  IF kind = "null" THEN {"provider", "testUser"}
  ELSE
    (IF c.provider \notin ProviderType THEN {"provider"} ELSE {}) \cup
    (IF ~c.testUser.defined THEN {"testUser"} ELSE {}) \cup
    (IF c.provider = "firebase"
     THEN (IF ~c.firebase.defined THEN {"firebase"} ELSE {}) \cup
          (IF ~Truthy(c.firebase.serviceAccount) THEN {"serviceAccount"} ELSE {}) \cup
          (IF c.firebase.clientConfig.kind # "object" THEN {"clientConfig"} ELSE {}) \cup
          (IF "apiKey" \notin c.firebase.clientConfig.keys
           THEN {"clientConfig.apiKey"} ELSE {}) \cup
          (IF "authDomain" \notin c.firebase.clientConfig.keys
           THEN {"clientConfig.authDomain"} ELSE {}) \cup
          (IF "projectId" \notin c.firebase.clientConfig.keys
           THEN {"clientConfig.projectId"} ELSE {}) \cup
          (IF ~Truthy(c.testUser.uid) THEN {"testUser.uid"} ELSE {})
     ELSE {}) \cup
    (IF c.provider = "supabase"
     THEN (IF ~c.supabase.defined THEN {"supabase"} ELSE {}) \cup
          (IF ~Truthy(c.supabase.url) THEN {"url"} ELSE {}) \cup
          (IF ~Truthy(c.supabase.anonKey) THEN {"anonKey"} ELSE {}) \cup
          (IF ~Truthy(c.testUser.email) THEN {"testUser.email"} ELSE {}) \cup
          (IF ~Truthy(c.testUser.password) THEN {"testUser.password"} ELSE {})
     ELSE {})

\* C34: every failure of loadConfig's validation carries the name of an
\* offending field: when a parsed document is rejected, the thrown error
\* quotes at least one field, and a field it quotes is missing or invalid in
\* that document.
C34_ValidationErrorNamesOffendingField ==
  (mode = "authSetup" /\ validated /\ ~config.loaded) =>
    /\ outcome = "rejected"
    /\ FieldsNamed(error) # {}
    /\ FieldsNamed(error) \cap OffendingFields(fileKind, input) # {}

\* the same statement for the failures validateConfig raises with its own
\* throw statements, the engine's TypeError set aside
OwnMessagesNameOffendingField ==
  (mode = "authSetup" /\ validated /\ ~config.loaded /\ error # "TypeError") =>
    /\ outcome = "rejected"
    /\ FieldsNamed(error) # {}
    /\ FieldsNamed(error) \cap OffendingFields(fileKind, input) # {}


C37_MissingUidFailsFast ==
  [][(provider'.kind = "firebase" /\ signInCalls' > 0 /\ ~Truthy(provider'.testUser.uid)) =>
       /\ failedStep' = "uid"
       /\ outcome' = "rejected" /\ error' = "MissingUid"
       /\ adminApps' = adminApps
       /\ customToken' = NoToken /\ backendCalls' = 0
       /\ steps' = <<>>
       /\ pageApps' = pageApps /\ pageInitCalls' = 0 /\ idbVars' = idbVars
       /\ ~signInResult'.done /\ exchangeArgs' = NoExchangeArgs
       /\ ~nextAuthResult'.done /\ ~callbackPost'.sent /\ csrfObtained' = Absent]_vars

\* C37 witness: a token Strategy built from a configuration with an empty
\* uid was asked to sign in and threw, the process still having no admin app
C37_Witness ==
  /\ provider.kind = "firebase" /\ provider.testUser.uid = ""
  /\ signInCalls = 1 /\ failedStep = "uid"
  /\ outcome = "rejected" /\ error = "MissingUid"
  /\ adminApps = 0 /\ steps = <<>>


\* C38: across interleaved signIn calls in one process the admin SDK app is
\* initialised at most once: admin.initializeApp is called only when no
\* admin app exists, and the number of admin apps never exceeds one.
C38_AdminAppInitializedAtMostOnce ==
  [][/\ Len(adminCredentials') <= 1
     /\ adminCredentials' # adminCredentials =>
          (adminCredentials = <<>> /\ Len(adminCredentials') = 1)]_vars

\* C38 witness: two token Strategies with different service accounts have
\* both begun signIn, and the process has one admin app
C38_Witness ==
  /\ \E r1, r2 \in Runs :
       /\ r1 # r2
       /\ runs[r1].signIns = 1 /\ runs[r2].signIns = 1
       /\ runs[r1].config.provider = "firebase" /\ runs[r2].config.provider = "firebase"
       /\ runs[r1].config.serviceAccount # runs[r2].config.serviceAccount
  /\ Len(adminCredentials) = 1


\* C39: for the password backend the secondary-session configuration is never
\* used: the Strategy is constructed without it, a run with provider supabase
\* performs no CSRF fetch and no callback POST whatever nextAuth.enabled
\* says, and the snapshot is captured after the key-value session steps alone.
C39_PasswordBackendIgnoresNextAuth ==
  provider.kind = "supabase" =>
    /\ provider.nextAuth = NoNextAuth
    /\ NoSecondaryRequest /\ ~warned
    /\ exchangeArgs = NoExchangeArgs /\ customToken = NoToken
    /\ IsPrefix(steps, SupabaseOrder)
    /\ snapshotCalls > 0 => (steps = SupabaseOrder /\ lsWritten)

\* C39 witness: an authSetup run with provider supabase and nextAuth.enabled
\* true has resolved, its snapshot taken after the five key-value steps
C39_Witness ==
  /\ mode = "authSetup" /\ provider.kind = "supabase"
  /\ config.value.nextAuth.enabled
  /\ steps = SupabaseOrder
  /\ snapshotCalls = 1 /\ outcome = "resolved"

====
